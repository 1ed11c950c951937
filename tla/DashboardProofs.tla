---------------------------- MODULE DashboardProofs ----------------------------
(* What holds of Dashboard for all nodes, outputs, texts, requests and tokens,   *)
(* however the requests, the cycle and the crashes interleave.                   *)
EXTENDS Dashboard, SequenceTheorems, FiniteSetTheorems, TLAPS

-----------------------------------------------------------------------------
(* The inductive invariants. *)

Request == [at : {"new", "pushing", "received", "done"}, kind : Kinds,
            body : Contents \cup {<<>>}, read : SUBSET Nodes, payload : Payload,
            by : Notifiers \cup {"none"}, pushed : BOOLEAN, answer : Answers]

RequestsTyped == requests \in [Requests -> Request]

\* A push was begun by a notifier that there was and that could format it.
CouldBeShown(payload, by) ==
  by = "wps" =>
    \A n \in DOMAIN payload.of : payload.of[n].reachable => ~ReportRaises(payload.of[n].raw)

\* What a request has done fits the place where it is.
Progress(q) ==
  LET r == requests[q] IN
  /\ r.at = "new" => r = NewRequest
  /\ r.at # "done" => r.answer = ""
  /\ r.at \in {"pushing", "received"} =>
       r.pushed /\ r.by \in Notifiers /\ CouldBeShown(r.payload, r.by)
  /\ r.at = "received" => CopyOf(q) \in got

\* Nothing is queued or received but what a request sent.
CopiesAccounted ==
  /\ \A copy \in queue \cup saved :
       /\ requests[copy.request].answer \in {"queued", "500"}
       /\ CouldBeShown(copy.payload, copy.by)
  /\ \A copy \in got : /\ requests[copy.request].at # "new"
                       /\ requests[copy.request].answer \notin {"401", "503", "404"}

-----------------------------------------------------------------------------
(* Records. *)

Locals(at, kind, body, read, payload, by, pushed, answer) ==
  [at |-> at, kind |-> kind, body |-> body, read |-> read, payload |-> payload,
   by |-> by, pushed |-> pushed, answer |-> answer]

\* A request is the record of its locals, each of its type.
LEMMA RequestParts ==
  ASSUME NEW r \in Request
  PROVE  /\ r = Locals(r.at, r.kind, r.body, r.read, r.payload, r.by, r.pushed, r.answer)
         /\ r.at \in {"new", "pushing", "received", "done"} /\ r.kind \in Kinds
         /\ r.body \in Contents \cup {<<>>} /\ r.read \subseteq Nodes
         /\ r.payload \in Payload /\ r.by \in Notifiers \cup {"none"}
         /\ r.pushed \in BOOLEAN /\ r.answer \in Answers
BY DEF Request, Locals

\* The record of locals of the right types is a request.
LEMMA IsRequest ==
  ASSUME NEW at \in {"new", "pushing", "received", "done"}, NEW kind \in Kinds,
         NEW body \in Contents \cup {<<>>}, NEW read \in SUBSET Nodes, NEW payload \in Payload,
         NEW by \in Notifiers \cup {"none"}, NEW pushed \in BOOLEAN, NEW answer \in Answers,
         NEW r, r = Locals(at, kind, body, read, payload, by, pushed, answer)
  PROVE  /\ r \in Request
         /\ r.at = at /\ r.kind = kind /\ r.body = body /\ r.read = read
         /\ r.payload = payload /\ r.by = by /\ r.pushed = pushed /\ r.answer = answer
BY DEF Request, Locals

\* So is one that has not been read.
LEMMA NewIsRequest == NewRequest \in Request
<1>1. <<>> \in UNION {[S -> Status] : S \in SUBSET Nodes}
  <2>1. <<>> \in [{} -> Status]
    OBVIOUS
  <2> QED
    BY <2>1
<1>2. NotFound \in Payload
  BY <1>1 DEF NotFound, Payload
<1> QED
  BY <1>2 DEF NewRequest, Request, Kinds, Answers

\* The outcome of a request, and the begin of its push.
LEMMA AnswerIs ==
  ASSUME NEW r \in Request, NEW code
  PROVE  [r EXCEPT !.at = "done", !.answer = code] =
           Locals("done", r.kind, r.body, r.read, r.payload, r.by, r.pushed, code)
<1> DEFINE whole == Locals(r.at, r.kind, r.body, r.read, r.payload, r.by, r.pushed, r.answer)
           first == Locals("done", r.kind, r.body, r.read, r.payload, r.by, r.pushed, r.answer)
           last  == Locals("done", r.kind, r.body, r.read, r.payload, r.by, r.pushed, code)
<1>1. r = whole
  BY RequestParts
<1>2. [whole EXCEPT !.at = "done"] = first
  BY DEF Locals
<1>3. [first EXCEPT !.answer = code] = last
  BY DEF Locals
<1> HIDE DEF whole, first, last
<1>4. [r EXCEPT !.at = "done", !.answer = code] = last
  BY <1>1, <1>2, <1>3, Zenon
<1> QED
  BY <1>4 DEF last

\* The locals of a request whose push begins.
LEMMA BeginIs ==
  ASSUME NEW r \in Request, NEW yes
  PROVE  [r EXCEPT !.at = "pushing", !.pushed = yes] =
           Locals("pushing", r.kind, r.body, r.read, r.payload, r.by, yes, r.answer)
<1> DEFINE whole == Locals(r.at, r.kind, r.body, r.read, r.payload, r.by, r.pushed, r.answer)
           first == Locals("pushing", r.kind, r.body, r.read, r.payload, r.by, r.pushed, r.answer)
           last  == Locals("pushing", r.kind, r.body, r.read, r.payload, r.by, yes, r.answer)
<1>1. r = whole
  BY RequestParts
<1>2. [whole EXCEPT !.at = "pushing"] = first
  BY DEF Locals
<1>3. [first EXCEPT !.pushed = yes] = last
  BY DEF Locals
<1> HIDE DEF whole, first, last
<1>4. [r EXCEPT !.at = "pushing", !.pushed = yes] = last
  BY <1>1, <1>2, <1>3, Zenon
<1> QED
  BY <1>4 DEF last

\* A request that has read node_status.
LEMMA AskedIs ==
  ASSUME NEW q \in Requests, NEW r \in Request, requests[q] = r,
         NEW kind, NEW body, NEW payload
  PROVE  Asked(q, kind, body, payload) =
           Locals(r.at, kind, body, Recorded, payload, notifier, r.pushed, r.answer)
<1> DEFINE r0 == Locals(r.at, r.kind, r.body, r.read, r.payload, r.by, r.pushed, r.answer)
           r1 == Locals(r.at, kind, r.body, r.read, r.payload, r.by, r.pushed, r.answer)
           r2 == Locals(r.at, kind, body, r.read, r.payload, r.by, r.pushed, r.answer)
           r3 == Locals(r.at, kind, body, Recorded, r.payload, r.by, r.pushed, r.answer)
           r4 == Locals(r.at, kind, body, Recorded, payload, r.by, r.pushed, r.answer)
           r5 == Locals(r.at, kind, body, Recorded, payload, notifier, r.pushed, r.answer)
<1>1. requests[q] = r0
  BY RequestParts
<1>2. [r0 EXCEPT !.kind = kind] = r1
  BY DEF Locals
<1>3. [r1 EXCEPT !.body = body] = r2
  BY DEF Locals
<1>4. [r2 EXCEPT !.read = Recorded] = r3
  BY DEF Locals
<1>5. [r3 EXCEPT !.payload = payload] = r4
  BY DEF Locals
<1>6. [r4 EXCEPT !.by = notifier] = r5
  BY DEF Locals
<1> HIDE DEF r0, r1, r2, r3, r4, r5
<1>7. Asked(q, kind, body, payload) = r5
  BY <1>1, <1>2, <1>3, <1>4, <1>5, <1>6, Zenon DEF Asked
<1> QED
  BY <1>7 DEF r5

\* A step of one request leaves the others.
LEMMA SetOne ==
  ASSUME RequestsTyped, NEW q \in Requests, NEW r \in Request, Set(q, r)
  PROVE  /\ RequestsTyped'
         /\ requests'[q] = r
         /\ \A p \in Requests \ {q} : requests'[p] = requests[p]
BY DEF RequestsTyped, Set

\* What is read from node_status can be pushed.
LEMMA ReadStatus ==
  ASSUME TypeOK, NEW S \in SUBSET Recorded
  PROVE  /\ Of(S) \in Payload /\ Of(S).found /\ Of(S).of = [n \in S |-> status[n]]
         /\ NotFound \in Payload /\ ~NotFound.found
         /\ Recorded \subseteq Nodes
<1>1. Recorded \subseteq Nodes /\ \A n \in Recorded : status[n] \in Status
  BY DEF TypeOK, Recorded, Unknown
<1>2. [n \in S |-> status[n]] \in UNION {[T -> Status] : T \in SUBSET Nodes}
  BY <1>1
<1>3. <<>> \in UNION {[T -> Status] : T \in SUBSET Nodes}
  <2>1. <<>> \in [{} -> Status]
    OBVIOUS
  <2> QED
    BY <2>1
<1> HIDE DEF Status
<1> QED
  BY <1>1, <1>2, <1>3 DEF Of, NotFound, Payload

-----------------------------------------------------------------------------
(* What the steps of a request do to its locals. *)

\* A request takes on the locals of r, but for the place and the outcome.
Turns(q, r, at, pushed, answer) ==
  /\ RequestsTyped'
  /\ LET s == requests'[q] IN
     /\ s.at = at /\ s.kind = r.kind /\ s.body = r.body /\ s.read = r.read
     /\ s.payload = r.payload /\ s.by = r.by /\ s.pushed = pushed /\ s.answer = answer
  /\ \A p \in Requests \ {q} : requests'[p] = requests[p]

\* The assumptions of every step.
Ready == TypeOK /\ RequestsTyped /\ \A q \in Requests : Progress(q)

\* A step that sets a request's place, push and answer to values of their types.
LEMMA TurnsTo ==
  ASSUME RequestsTyped, NEW q \in Requests, NEW r \in Request,
         NEW at \in {"new", "pushing", "received", "done"}, NEW pushed \in BOOLEAN,
         NEW answer \in Answers, NEW s,
         s = Locals(at, r.kind, r.body, r.read, r.payload, r.by, pushed, answer), Set(q, s)
  PROVE  Turns(q, r, at, pushed, answer)
<1>1. /\ s \in Request
      /\ s.at = at /\ s.kind = r.kind /\ s.body = r.body /\ s.read = r.read
      /\ s.payload = r.payload /\ s.by = r.by /\ s.pushed = pushed /\ s.answer = answer
  <2>1. /\ r.kind \in Kinds /\ r.body \in Contents \cup {<<>>} /\ r.read \in SUBSET Nodes
        /\ r.payload \in Payload /\ r.by \in Notifiers \cup {"none"}
    BY RequestParts
  <2> QED
    BY <2>1 DEF Request, Locals
<1> QED
  BY <1>1, SetOne DEF Turns

\* A request that ends.
LEMMA AnswerTurns ==
  ASSUME RequestsTyped, NEW q \in Requests, NEW r \in Request, NEW code \in Answers,
         Answer(q, r, code)
  PROVE  Turns(q, r, "done", r.pushed, code)
<1> DEFINE last == [r EXCEPT !.at = "done", !.answer = code]
<1>1. last = Locals("done", r.kind, r.body, r.read, r.payload, r.by, r.pushed, code)
  BY AnswerIs, Zenon
<1>2. Set(q, last)
  BY DEF Answer
<1> HIDE DEF last
<1> QED
  BY <1>1, <1>2, RequestParts, TurnsTo

\* A request that has read node_status, whichever way it goes on.
HasRead(r, kind, body, payload) ==
  /\ r \in Request
  /\ r.kind = kind /\ r.body = body /\ r.read = Recorded
  /\ r.payload = payload /\ r.by = notifier /\ r.answer = ""

\* What a request that was read holds.
LEMMA AskedRequest ==
  ASSUME Ready, NEW q \in Requests, requests[q].at = "new",
         NEW kind \in Kinds, NEW body \in Contents \cup {<<>>}, NEW payload \in Payload
  PROVE  HasRead(Asked(q, kind, body, payload), kind, body, payload)
<1> DEFINE r == Asked(q, kind, body, payload)
<1> DEFINE old == requests[q]
<1>1. old \in Request /\ old = NewRequest
  BY DEF Ready, RequestsTyped, Progress
<1>2. old.at = "new" /\ old.pushed = FALSE /\ old.answer = ""
  <2>1. NewRequest.at = "new"
    BY DEF NewRequest
  <2>2. NewRequest.pushed = FALSE
    BY Zenon DEF NewRequest
  <2>3. NewRequest.answer = ""
    BY DEF NewRequest
  <2> HIDE DEF old
  <2> QED
    BY <1>1, <2>1, <2>2, <2>3, Zenon
<1>3. r = Locals(old.at, kind, body, Recorded, payload, notifier, old.pushed, old.answer)
  BY <1>1, AskedIs, Zenon
<1>4. Recorded \in SUBSET Nodes /\ notifier \in Notifiers \cup {"none"}
  BY DEF Ready, TypeOK, Recorded
<1>5. /\ old.at \in {"new", "pushing", "received", "done"}
      /\ old.pushed \in BOOLEAN /\ old.answer \in Answers
  BY <1>1, RequestParts
<1> HIDE DEF old, r
<1>6. /\ r \in Request
      /\ r.kind = kind /\ r.body = body /\ r.read = Recorded
      /\ r.payload = payload /\ r.by = notifier
      /\ r.answer = old.answer
  BY <1>3, <1>4, <1>5, IsRequest
<1> QED
  BY <1>2, <1>6, Zenon DEF r, HasRead

\* A push begins.
LEMMA BeginTurns ==
  ASSUME RequestsTyped, NEW q \in Requests, NEW r \in Request, Begin(q, r)
  PROVE  Turns(q, r, "pushing", TRUE, r.answer)
<1> DEFINE last == [r EXCEPT !.at = "pushing", !.pushed = TRUE]
<1>1. last = Locals("pushing", r.kind, r.body, r.read, r.payload, r.by, TRUE, r.answer)
  BY BeginIs, Zenon
<1>2. Set(q, last)
  BY DEF Begin
<1>3. TRUE \in BOOLEAN /\ "pushing" \in {"new", "pushing", "received", "done"}
  OBVIOUS
<1> HIDE DEF last
<1> QED
  BY <1>1, <1>2, <1>3, RequestParts, TurnsTo

\* The receiver's taking the push changes nothing but the place.
LEMMA ReceiveTurns ==
  ASSUME RequestsTyped, NEW q \in Requests, NEW r, r = requests[q],
         Set(q, [r EXCEPT !.at = "received"])
  PROVE  Turns(q, r, "received", r.pushed, r.answer)
<1> DEFINE last == [r EXCEPT !.at = "received"]
           whole == Locals(r.at, r.kind, r.body, r.read, r.payload, r.by, r.pushed, r.answer)
<1>1. r \in Request
  BY DEF RequestsTyped
<1>2. r = whole
  BY <1>1, RequestParts
<1>3. [whole EXCEPT !.at = "received"] =
        Locals("received", r.kind, r.body, r.read, r.payload, r.by, r.pushed, r.answer)
  BY DEF Locals
<1> HIDE DEF whole
<1>4. last = Locals("received", r.kind, r.body, r.read, r.payload, r.by, r.pushed, r.answer)
  BY <1>2, <1>3, Zenon
<1> HIDE DEF last
<1> QED
  BY <1>1, <1>4, RequestParts, TurnsTo DEF last

\* The payload of an answer of the robot.
LEMMA PayloadForTyped ==
  ASSUME TypeOK, NEW body \in Contents
  PROVE  PayloadFor(body) \in Payload
<1> DEFINE target == Robot!TargetOf(body)
           named  == {n \in Recorded : target = <<NameOf[n]>>}
<1>1. named \in SUBSET Recorded /\ Recorded \in SUBSET Recorded
  OBVIOUS
<1>2. Of(named) \in Payload /\ Of(Recorded) \in Payload /\ NotFound \in Payload
  BY <1>1, ReadStatus
<1>3. PayloadFor(body) \in {Of(named), Of(Recorded), NotFound}
  BY DEF PayloadFor
<1> HIDE DEF named
<1> QED
  BY <1>2, <1>3

-----------------------------------------------------------------------------
(* The documented forms. *)

\* Min is the least element, wherever there is one.
LEMMA LeastIs ==
  ASSUME NEW I \in SUBSET Int, NEW m \in I, \A i \in I : m <= i
  PROVE  Robot!Min(I) = m
<1>1. \A x \in I : (\A y \in I : x <= y) => x = m
  OBVIOUS
<1> QED
  BY <1>1 DEF Robot!Min

\* The nine keywords of the robot are different.
LEMMA KeywordsDiffer ==
  /\ Len(Robot!Keywords) = 9 /\ DOMAIN Robot!Keywords = 1 .. 9
  /\ \A j, k \in 1 .. 9 : Robot!Keywords[j] = Robot!Keywords[k] => j = k
BY DEF Robot!Keywords

\* The keyword that is found is the first of the list that the text holds.
LEMMA KeywordFound ==
  ASSUME NEW text, NEW k \in 1 .. 9,
         Robot!Holds(text, Robot!Keywords[k]),
         \A j \in 1 .. 9 : Robot!Holds(text, Robot!Keywords[j]) => k <= j
  PROVE  Robot!KeywordIn(text) = k
<1> DEFINE I == {i \in 1 .. Len(Robot!Keywords) : Robot!Holds(text, Robot!Keywords[i])}
<1>1. I \in SUBSET Int /\ k \in I /\ \A i \in I : k <= i
  BY KeywordsDiffer
<1> HIDE DEF I
<1>2. Robot!Min(I) = k
  BY <1>1, LeastIs
<1>3. Robot!KeywordIn(text) = IF I # {} THEN Robot!Min(I) ELSE 0
  BY Zenon DEF I, Robot!KeywordIn, Robot!SelectInSeq
<1> QED
  BY <1>1, <1>2, <1>3

\* The rest of a sequence of two.
LEMMA LastOne ==
  ASSUME NEW S, NEW s \in Seq(S), Len(s) = 2
  PROVE  Tail(s) \in Seq(S) /\ Len(Tail(s)) = 1 /\ Tail(s)[1] = s[2]
<1>1. s # <<>>
  OBVIOUS
<1> DEFINE t == Tail(s)
<1>2. /\ t \in Seq(S) /\ Len(t) = Len(s) - 1
      /\ \A i \in 1 .. Len(t) : t[i] = s[i + 1]
  BY <1>1, HeadTailProperties, Zenon
<1> HIDE DEF t
<1>3. Len(t) = 1 /\ t[1] = s[1 + 1]
  BY <1>2
<1> QED
  BY <1>2, <1>3 DEF t

\* The rest of a sequence of three.
LEMMA LastTwo ==
  ASSUME NEW S, NEW s \in Seq(S), Len(s) = 3
  PROVE  /\ Tail(s) \in Seq(S) /\ Len(Tail(s)) = 2
         /\ Tail(s)[1] = s[2] /\ Tail(s)[2] = s[3]
<1>1. s # <<>>
  OBVIOUS
<1> DEFINE t == Tail(s)
<1>2. /\ t \in Seq(S) /\ Len(t) = Len(s) - 1
      /\ \A i \in 1 .. Len(t) : t[i] = s[i + 1]
  BY <1>1, HeadTailProperties, Zenon
<1> HIDE DEF t
<1>3. Len(t) = 2 /\ t[1] = s[1 + 1] /\ t[2] = s[2 + 1]
  BY <1>2
<1>4. t \in Seq(S) /\ Len(t) = 2 /\ t[1] = s[2] /\ t[2] = s[3]
  BY <1>2, <1>3
<1> QED
  BY <1>4 DEF t

\* What follows a keyword that is a word of its own at the start of a text.
LEMMA AfterKeyword ==
  ASSUME NEW text \in Seq(Seq(STRING)), NEW kw, 1 <= Len(text), text[1] = <<kw>>
  PROVE  Robot!After(text, kw) = SubSeq(text, 2, Len(text))
<1> DEFINE words  == {i \in 1 .. Len(text) : Robot!Contains(text[i], kw)}
           pieces == {i \in 1 .. Len(text[1]) : text[1][i] = kw}
           w  == Robot!SelectInSeq(text, LAMBDA word : Robot!Contains(word, kw))
           at == Robot!SelectInSeq(text[w], LAMBDA piece : piece = kw)
           rest == SubSeq(text[w], at + 1, Len(text[w]))
<1>0. Len(text) \in Nat /\ 1 <= Len(text)
  OBVIOUS
<1>1. 1 \in words /\ words \in SUBSET Int /\ \A i \in words : 1 <= i
  <2>1. Robot!Contains(<<kw>>, kw)
    BY DEF Robot!Contains
  <2>2. Robot!Contains(text[1], kw)
    BY <2>1
  <2>3. 1 \in 1 .. Len(text)
    BY <1>0
  <2>4. 1 \in words
    BY <2>2, <2>3, Zenon
  <2>5. words \subseteq 1 .. Len(text)
    BY Zenon
  <2> HIDE DEF words
  <2> QED
    BY <2>4, <2>5
<1>2. Robot!Min(words) = 1
  <2> HIDE DEF words
  <2> QED
    BY <1>1, LeastIs
<1>3. w = 1
  <2>1. w = IF words # {} THEN Robot!Min(words) ELSE 0
    BY Zenon DEF Robot!SelectInSeq
  <2> QED
    BY <1>1, <1>2, <2>1
<1>4. 1 \in pieces /\ pieces \in SUBSET Int /\ \A i \in pieces : 1 <= i
  OBVIOUS
<1>5. Robot!Min(pieces) = 1
  <2> HIDE DEF pieces
  <2> QED
    BY <1>4, LeastIs
<1>6. at = 1
  <2>1. at = IF pieces # {} THEN Robot!Min(pieces) ELSE 0
    <3> HIDE DEF w
    <3> QED
      BY <1>3, Zenon DEF Robot!SelectInSeq
  <2> QED
    BY <1>4, <1>5, <2>1
<1>7. rest = <<>>
  <2>1. SubSeq(<<kw>>, 1 + 1, Len(<<kw>>)) = <<>>
    OBVIOUS
  <2> HIDE DEF w, at
  <2> QED
    BY <1>3, <1>6, <2>1, Zenon
<1>8. Robot!After(text, kw) = (IF rest = <<>> THEN <<>> ELSE <<rest>>) \o SubSeq(text, w + 1, Len(text))
  BY Zenon DEF Robot!After
<1>9. SubSeq(text, 2, Len(text)) \in Seq(Seq(STRING))
  OBVIOUS
<1> HIDE DEF w, at, rest
<1> QED
  BY <1>3, <1>7, <1>8, <1>9

\* The robot's name is taken off a text that begins with it.
LEMMA NameGoes ==
  ASSUME NEW content \in Seq(Seq(STRING)), Len(content) > 1, Robot!RobotNamed(content[1])
  PROVE  /\ Robot!AfterRobotName(content) = Tail(content)
         /\ Robot!AsksForReport(content)
<1>1. Head(content) = content[1] /\ content[1] \in Seq(STRING) /\ 1 \in DOMAIN content
  OBVIOUS
<1>2. content[1] # <<>> /\ Head(content[1]) = "@"
  BY DEF Robot!RobotNamed
<1>3. Robot!Contains(content[1], "@")
  BY <1>1, <1>2 DEF Robot!Contains
<1>4. Robot!Holds(content, "@")
  BY <1>1, <1>3, Zenon DEF Robot!Holds
<1>5. Robot!StartsWithAt(content)
  BY <1>1, <1>2 DEF Robot!StartsWithAt
<1> QED
  BY <1>4, <1>5 DEF Robot!AfterRobotName, Robot!AsksForReport

\* A keyword alone is about all nodes.
LEMMA AllAsked ==
  ASSUME NEW content \in Seq(Seq(STRING)), Robot!AsksForAll(content)
  PROVE  Robot!TargetOf(content) = <<>> /\ Robot!AsksForReport(content)
<1> DEFINE text == Tail(content)
<1>1. PICK k \in 1 .. 9 : content[2] = <<Robot!Keywords[k]>>
  BY KeywordsDiffer DEF Robot!AsksForAll
<1>2. text \in Seq(Seq(STRING)) /\ Len(text) = 1 /\ text[1] = <<Robot!Keywords[k]>>
  <2>1. Len(content) = 2
    BY Zenon DEF Robot!AsksForAll
  <2>2. text \in Seq(Seq(STRING)) /\ Len(text) = 1 /\ text[1] = content[2]
    BY <2>1, LastOne, Zenon
  <2> HIDE DEF text
  <2> QED
    BY <1>1, <2>2, Zenon
<1>3. Robot!AfterRobotName(content) = text /\ Robot!AsksForReport(content)
  <2>1. Len(content) > 1 /\ Robot!RobotNamed(content[1])
    BY DEF Robot!AsksForAll
  <2> QED
    BY <2>1, NameGoes, Zenon
<1> HIDE DEF text
<1>4. ASSUME NEW j \in 1 .. 9
      PROVE  Robot!Holds(text, Robot!Keywords[j]) <=> j = k
  <2>1. Robot!Holds(text, Robot!Keywords[j]) <=> Robot!Keywords[j] = Robot!Keywords[k]
    BY <1>2 DEF Robot!Holds, Robot!Contains
  <2> QED
    BY <2>1, KeywordsDiffer
<1>5. Robot!KeywordIn(text) = k
  <2>1. \A j \in 1 .. 9 : Robot!Holds(text, Robot!Keywords[j]) => k <= j
    BY <1>4
  <2> QED
    BY <1>4, <2>1, KeywordFound
<1>6. Robot!After(text, Robot!Keywords[k]) = SubSeq(text, 2, Len(text))
  <2>1. 1 <= Len(text)
    BY <1>2
  <2> QED
    BY <1>2, <2>1, AfterKeyword, Zenon
<1>7. SubSeq(text, 2, Len(text)) = <<>>
  BY <1>2
<1>8. k # 0
  OBVIOUS
<1> QED
  BY <1>3, <1>5, <1>6, <1>7, <1>8 DEF Robot!TargetOf

\* A keyword and a name that holds none before it are about that node.
LEMMA NodeAsked ==
  ASSUME NEW content \in Seq(Seq(STRING)), NEW name \in Seq(STRING),
         Robot!AsksForNode(content, name), Robot!Unmistakable(content)
  PROVE  Robot!TargetOf(content) = <<name>> /\ Robot!AsksForReport(content)
<1> DEFINE text == Tail(content)
           form == SubSeq(content, 1, 2)
<1>1. Len(content) = 3 /\ content[3] = name
  BY DEF Robot!AsksForNode
<1>2. form[1] = content[1] /\ form[2] = content[2]
  BY <1>1
<1>3. Robot!AsksForAll(form)
  BY DEF Robot!AsksForNode
<1> HIDE DEF form
<1>4. PICK k \in 1 .. 9 : content[2] = <<Robot!Keywords[k]>>
  BY <1>2, <1>3, KeywordsDiffer DEF Robot!AsksForAll
<1>5. Robot!RobotNamed(content[1])
  BY <1>2, <1>3 DEF Robot!AsksForAll
<1>6. Robot!AfterRobotName(content) = text /\ Robot!AsksForReport(content)
  <2>1. Len(content) > 1
    BY <1>1
  <2> QED
    BY <1>5, <2>1, NameGoes, Zenon
<1>7. /\ text \in Seq(Seq(STRING)) /\ Len(text) = 2
      /\ text[1] = <<Robot!Keywords[k]>> /\ text[2] = name
  <2>1. /\ text \in Seq(Seq(STRING)) /\ Len(text) = 2
        /\ text[1] = content[2] /\ text[2] = content[3]
    BY <1>1, LastTwo, Zenon
  <2> HIDE DEF text
  <2> QED
    BY <1>1, <1>4, <2>1, Zenon
<1> HIDE DEF text
<1>8. DOMAIN text = {1, 2}
  BY <1>7
<1>9. Robot!KeywordIn(text) = k
  <2>1. \A j \in 1 .. 9 :
          Robot!Contains(text[1], Robot!Keywords[j]) <=> Robot!Keywords[j] = Robot!Keywords[k]
    BY <1>7 DEF Robot!Contains
  <2>2. Robot!Holds(text, Robot!Keywords[k])
    BY <1>8, <2>1, Zenon DEF Robot!Holds
  <2>3. ASSUME NEW j \in 1 .. 9, Robot!Holds(text, Robot!Keywords[j])
        PROVE  k <= j
    <3>1. CASE Robot!Contains(text[1], Robot!Keywords[j])
      <4>1. j = k
        BY <2>1, <3>1, KeywordsDiffer
      <4> QED
        BY <4>1
    <3>2. CASE Robot!Contains(text[2], Robot!Keywords[j])
      BY <1>1, <1>4, <1>7, <3>2, KeywordsDiffer, Zenon DEF Robot!Unmistakable
    <3> QED
      BY <1>8, <2>3, <3>1, <3>2, Zenon DEF Robot!Holds
  <2> QED
    BY <2>2, <2>3, KeywordFound
<1>10. Robot!After(text, Robot!Keywords[k]) = SubSeq(text, 2, Len(text))
  <2>1. 1 <= Len(text)
    BY <1>7
  <2> QED
    BY <1>7, <2>1, AfterKeyword, Zenon
<1>11. SubSeq(text, 2, Len(text)) = <<name>>
  <2> DEFINE rest == SubSeq(text, 2, Len(text))
  <2>1. Len(text) = 2 /\ text[2] = name
    BY <1>7
  <2>2. rest = SubSeq(text, 2, 2)
    BY <2>1
  <2>3. rest \in Seq(Seq(STRING)) /\ Len(rest) = 1 /\ rest[1] = text[2]
    BY <1>7, <2>2
  <2> HIDE DEF rest
  <2>4. rest = <<name>>
    BY <2>1, <2>3
  <2> QED
    BY <2>4 DEF rest
<1>12. k # 0
  OBVIOUS
<1> QED
  BY <1>6, <1>9, <1>10, <1>11, <1>12 DEF Robot!TargetOf

\* The property of the robot, of the locals of a request.
FormsUnderstood(kind, body, read, payload, by) ==
  kind = "callback" /\ by # "none" =>
    /\ Robot!AsksForAll(body) => payload.found /\ DOMAIN payload.of = read
    /\ \A n \in Nodes :
         Robot!AsksForNode(body, NameOf[n]) /\ Robot!Unmistakable(body) =>
           /\ payload.found <=> n \in read
           /\ DOMAIN payload.of = read \cap {n}

Understood(q) ==
  LET r == requests[q] IN FormsUnderstood(r.kind, r.body, r.read, r.payload, r.by)

\* The promise of the robot, request by request.
LEMMA RobotHeard == PlainFormsUnderstood <=> \A q \in Requests : Understood(q)
BY Zenon DEF PlainFormsUnderstood, AllAnswered, NodeAnswered, Understood, FormsUnderstood

\* A report of POST /api/report, and a callback before node_status is read, are
\* no question to the robot.
LEMMA NoQuestion ==
  ASSUME NEW kind, NEW body, NEW read, NEW payload, NEW by,
         kind = "report" \/ by = "none"
  PROVE  FormsUnderstood(kind, body, read, payload, by)
<1>1. ~(kind = "callback" /\ by # "none")
  OBVIOUS
<1> QED
  BY <1>1, Zenon DEF FormsUnderstood

\* The running notifier can format exactly what could be shown by it.
LEMMA FormatIs ==
  ASSUME NEW payload
  PROVE  CouldBeShown(payload, notifier) <=> ~FormatRaises(payload)
BY Zenon DEF CouldBeShown, FormatRaises

\* The payload of a documented form.
LEMMA AllShown ==
  ASSUME TypeOK, NEW body \in Contents, Robot!AsksForAll(body)
  PROVE  /\ PayloadFor(body).found /\ DOMAIN PayloadFor(body).of = Recorded
         /\ Robot!TargetOf(body) = <<>> /\ Robot!AsksForReport(body)
<1>1. body \in Seq(Seq(STRING))
  BY DashboardAssumption
<1>2. Robot!TargetOf(body) = <<>> /\ Robot!AsksForReport(body)
  BY <1>1, AllAsked, Zenon
<1>3. PayloadFor(body) = Of(Recorded)
  BY <1>2 DEF PayloadFor
<1>4. Recorded \in SUBSET Recorded
  OBVIOUS
<1>5. Of(Recorded).found /\ Of(Recorded).of = [n \in Recorded |-> status[n]]
  BY <1>4, ReadStatus
<1>6. DOMAIN Of(Recorded).of = Recorded
  BY <1>5, Zenon
<1> QED
  BY <1>2, <1>3, <1>5, <1>6, Zenon

\* A text that asks for one node gets that node, if it is recorded.
LEMMA NodeShown ==
  ASSUME TypeOK, NEW body \in Contents, NEW n \in Nodes,
         Robot!AsksForNode(body, NameOf[n]), Robot!Unmistakable(body)
  PROVE  /\ PayloadFor(body).found <=> n \in Recorded
         /\ DOMAIN PayloadFor(body).of = Recorded \cap {n}
         /\ Robot!TargetOf(body) # <<>> /\ Robot!AsksForReport(body)
<1> DEFINE target == Robot!TargetOf(body)
           named  == {m \in Recorded : target = <<NameOf[m]>>}
<1>1. body \in Seq(Seq(STRING)) /\ NameOf[n] \in Seq(STRING)
  BY DashboardAssumption
<1>2. target = <<NameOf[n]>> /\ Robot!AsksForReport(body)
  BY <1>1, NodeAsked, Zenon
<1>3. target # <<>>
  BY <1>2
<1>4. Recorded \subseteq Nodes
  BY DEF Recorded
<1>5. \A m \in Nodes : NameOf[m] = NameOf[n] => m = n
  BY DashboardAssumption
<1>6. named = Recorded \cap {n}
  <2>1. \A m \in Recorded : target = <<NameOf[m]>> <=> NameOf[m] = NameOf[n]
    BY <1>2
  <2> HIDE DEF target
  <2> QED
    BY <1>4, <1>5, <2>1
<1>7. PayloadFor(body) = IF named # {} THEN Of(named) ELSE NotFound
  BY <1>3 DEF PayloadFor
<1> HIDE DEF named, target
<1>8. named \in SUBSET Recorded
  BY <1>6
<1>9. /\ Of(named).found /\ Of(named).of = [m \in named |-> status[m]]
      /\ ~NotFound.found
  BY <1>8, ReadStatus
<1>10. DOMAIN Of(named).of = named
  BY <1>9, Zenon
<1>11. DOMAIN NotFound.of = {}
  BY DEF NotFound
<1>12. CASE n \in Recorded
  <2>1. named # {} /\ named = Recorded \cap {n}
    BY <1>6, <1>12
  <2> QED
    BY <1>2, <1>3, <1>7, <1>9, <1>10, <1>12, <2>1, Zenon DEF target
<1>13. CASE n \notin Recorded
  <2>1. named = {} /\ Recorded \cap {n} = {}
    BY <1>6, <1>13
  <2> QED
    BY <1>2, <1>3, <1>7, <1>9, <1>11, <1>13, <2>1, Zenon DEF target
<1> QED
  BY <1>12, <1>13

\* Whoever is asked in a plain form, the locals are right.
LEMMA QuestionHeard ==
  ASSUME TypeOK, NEW body \in Contents
  PROVE  FormsUnderstood("callback", body, Recorded, PayloadFor(body), notifier)
BY AllShown, NodeShown, Zenon DEF FormsUnderstood

-----------------------------------------------------------------------------
(* The kinds of steps. *)

\* The rest of the state, and the other requests, stay as they are.
Alone(q) ==
  /\ RequestsTyped'
  /\ \A p \in Requests \ {q} : requests'[p] = requests[p]
  /\ status' = status
  /\ notifier' = notifier

Keeps(q) ==
  LET r == requests[q]
      s == requests'[q]
  IN /\ s.kind = r.kind /\ s.body = r.body /\ s.read = r.read
     /\ s.payload = r.payload /\ s.by = r.by /\ s.pushed = r.pushed

\* A request that is answered before anything is sent.
AnswersAtOnce(q) ==
  /\ Alone(q)
  /\ requests[q].at = "new"
  /\ requests'[q].at = "done"
  /\ requests'[q].answer \in {"401", "503", "404", "500", "ok"}
  /\ Understood(q)'
  /\ queue' = queue /\ saved' = saved /\ got' = got /\ faults' = faults

StartsPush(q) ==
  /\ Alone(q)
  /\ requests[q].at = "new"
  /\ requests'[q].at = "pushing"
  /\ requests'[q].answer = ""
  /\ requests'[q].pushed
  /\ requests'[q].by \in Notifiers
  /\ CouldBeShown(requests'[q].payload, requests'[q].by)
  /\ Understood(q)'
  /\ queue' = queue /\ saved' = saved /\ got' = got /\ faults' = faults

IsReceived(q) ==
  /\ Alone(q)
  /\ Keeps(q)
  /\ requests[q].at = "pushing"
  /\ requests'[q].at = "received"
  /\ requests'[q].answer = ""
  /\ got' = got \cup {CopyOf(q)}
  /\ queue' = queue /\ saved' = saved /\ faults' = faults

Ends(q, code) ==
  /\ Alone(q)
  /\ Keeps(q)
  /\ requests[q].at \in {"pushing", "received"}
  /\ requests'[q].at = "done"
  /\ requests'[q].answer = code
  /\ code = "sent" => requests[q].at = "received"
  /\ code = "queued" => queue' = queue \cup {CopyOf(q)} /\ saved' = queue'
  /\ code = "500" => queue' \in {queue, queue \cup {CopyOf(q)}} /\ saved' = saved
  /\ code \in {"sent", "ok"} => queue' = queue /\ saved' = saved
  /\ got' = got
  /\ faults' \in 0 .. MaxFaults

\* A request that turns is the only one that does.
LEMMA OneTurn ==
  ASSUME NEW q \in Requests, NEW r, NEW at, NEW pushed, NEW answer,
         Turns(q, r, at, pushed, answer), status' = status, notifier' = notifier
  PROVE  /\ Alone(q)
         /\ requests'[q].at = at /\ requests'[q].answer = answer
         /\ requests'[q].payload = r.payload /\ requests'[q].by = r.by
         /\ requests'[q].pushed = pushed
         /\ FormsUnderstood(r.kind, r.body, r.read, r.payload, r.by) => Understood(q)'
<1>1. Alone(q)
  BY DEF Turns, Alone
<1>2. Understood(q)' <=>
        FormsUnderstood(requests'[q].kind, requests'[q].body, requests'[q].read,
                        requests'[q].payload, requests'[q].by)
  BY Zenon DEF Understood, FormsUnderstood
<1> QED
  BY <1>1, <1>2, Zenon DEF Turns

\* Whether a request could be pushed, and the answers before the push.
LEMMA NewParts ==
  ASSUME Ready, NEW q \in Requests, requests[q].at = "new"
  PROVE  /\ requests[q] \in Request /\ requests[q].by = "none"
         /\ requests[q].kind = "report" /\ requests[q].answer = ""
<1>1. requests[q] = NewRequest
  BY DEF Ready, Progress
<1>2. NewRequest.by = "none" /\ NewRequest.kind = "report" /\ NewRequest.answer = ""
  BY DEF NewRequest
<1> QED
  BY <1>1, <1>2, NewIsRequest

\* What POST /api/report has read.
LEMMA ReportLocals ==
  ASSUME Ready, NEW q \in Requests, requests[q].at = "new"
  PROVE  HasRead(Report(q), "report", <<>>, Of(Recorded))
<1>1. Recorded \in SUBSET Recorded
  OBVIOUS
<1>2. Of(Recorded) \in Payload
  BY <1>1, ReadStatus DEF Ready
<1>3. "report" \in Kinds /\ <<>> \in Contents \cup {<<>>}
  BY DEF Kinds
<1>4. HasRead(Asked(q, "report", <<>>, Of(Recorded)), "report", <<>>, Of(Recorded))
  BY <1>2, <1>3, AskedRequest, Zenon
<1> QED
  BY <1>4, Zenon DEF Report

\* What the callback has read.
LEMMA CallbackLocals ==
  ASSUME Ready, NEW q \in Requests, requests[q].at = "new", NEW body \in Contents
  PROVE  HasRead(Callback(q, body), "callback", body, PayloadFor(body))
<1>1. PayloadFor(body) \in Payload
  BY PayloadForTyped DEF Ready
<1>2. "callback" \in Kinds /\ body \in Contents \cup {<<>>}
  BY DEF Kinds
<1>3. HasRead(Asked(q, "callback", body, PayloadFor(body)), "callback", body, PayloadFor(body))
  BY <1>1, <1>2, AskedRequest, Zenon
<1> QED
  BY <1>3, Zenon DEF Callback

\* A request that is answered without a push answers at once.
LEMMA AnswersOnce ==
  ASSUME Ready, NEW q \in Requests, requests[q].at = "new", NEW r \in Request,
         NEW code \in {"401", "503", "404", "500", "ok"}, Answer(q, r, code),
         FormsUnderstood(r.kind, r.body, r.read, r.payload, r.by),
         UNCHANGED <<status, notifier, table, faults, got>>
  PROVE  AnswersAtOnce(q)
<1>1. code \in Answers
  BY DEF Answers
<1>2. Turns(q, r, "done", r.pushed, code)
  BY <1>1, AnswerTurns DEF Ready
<1>3. /\ status' = status /\ notifier' = notifier /\ queue' = queue /\ saved' = saved
      /\ got' = got /\ faults' = faults
  BY DEF table
<1>4. /\ Alone(q) /\ Understood(q)'
      /\ requests'[q].at = "done" /\ requests'[q].answer = code
  BY <1>2, <1>3, OneTurn
<1>5. requests'[q].answer \in {"401", "503", "404", "500", "ok"}
  BY <1>4
<1> QED
  BY <1>3, <1>4, <1>5, Zenon DEF AnswersAtOnce

\* A refused report is answered at once.
LEMMA RefuseReportKind ==
  ASSUME Ready, NEW q \in Requests, RefuseReport(q)
  PROVE  AnswersAtOnce(q)
<1> DEFINE r == requests[q]
<1>1. PICK header, query \in Tokens :
        /\ ReportRefusal(header, query) # ""
        /\ Answer(q, r, ReportRefusal(header, query))
  BY DEF RefuseReport
<1> DEFINE code == ReportRefusal(header, query)
<1>2. code \in {"401", "503", "404"}
  BY <1>1, Zenon DEF ReportRefusal
<1>3. code \in {"401", "503", "404", "500", "ok"}
  BY <1>2
<1>4. r \in Request /\ r.by = "none" /\ r.at = "new"
  BY NewParts DEF RefuseReport
<1>5. FormsUnderstood(r.kind, r.body, r.read, r.payload, r.by)
  BY <1>4, NoQuestion
<1>6. UNCHANGED <<status, notifier, table, faults, got>>
  BY DEF RefuseReport
<1> HIDE DEF code
<1>7. Answer(q, r, code)
  BY <1>1 DEF code
<1> QED
  BY <1>3, <1>4, <1>5, <1>6, <1>7, AnswersOnce

\* So is a callback without a text,
LEMMA CallbackWithoutTextKind ==
  ASSUME Ready, NEW q \in Requests, CallbackWithoutText(q)
  PROVE  AnswersAtOnce(q)
<1> DEFINE old == requests[q]
           r == [old EXCEPT !.kind = "callback"]
           locals == Locals(old.at, "callback", old.body, old.read, old.payload, old.by,
                            old.pushed, old.answer)
           whole == Locals(old.at, old.kind, old.body, old.read, old.payload, old.by,
                           old.pushed, old.answer)
<1>1. PICK code \in {"ok", "500"} : Answer(q, r, code)
  BY DEF CallbackWithoutText
<1>2. code \in {"401", "503", "404", "500", "ok"}
  OBVIOUS
<1>3. old \in Request /\ old.by = "none" /\ old.at = "new"
  BY NewParts DEF CallbackWithoutText
<1>4. old = whole
  BY <1>3, RequestParts
<1>5. [whole EXCEPT !.kind = "callback"] = locals
  BY DEF Locals
<1> HIDE DEF whole, locals
<1>6. r = locals
  BY <1>4, <1>5, Zenon
<1> HIDE DEF r, old
<1>7. r \in Request /\ r.by = "none"
  <2>1. /\ old.at \in {"new", "pushing", "received", "done"} /\ "callback" \in Kinds
        /\ old.body \in Contents \cup {<<>>} /\ old.read \in SUBSET Nodes
        /\ old.payload \in Payload /\ old.by \in Notifiers \cup {"none"}
        /\ old.pushed \in BOOLEAN /\ old.answer \in Answers
    BY <1>3, RequestParts DEF Kinds
  <2>2. r = Locals(old.at, "callback", old.body, old.read, old.payload, old.by,
                   old.pushed, old.answer)
    BY <1>6 DEF locals
  <2>3. r \in Request /\ r.by = old.by
    BY <2>1, <2>2, IsRequest
  <2> QED
    BY <1>3, <2>3
<1>8. FormsUnderstood(r.kind, r.body, r.read, r.payload, r.by)
  BY <1>7, NoQuestion
<1>9. UNCHANGED <<status, notifier, table, faults, got>>
  BY DEF CallbackWithoutText
<1>10. requests[q].at = "new"
  BY DEF CallbackWithoutText
<1> QED
  BY <1>1, <1>2, <1>7, <1>8, <1>9, <1>10, AnswersOnce

\* The requests that have read node_status.
LEMMA ReportCannotBeShownKind ==
  ASSUME Ready, NEW q \in Requests, ReportCannotBeShown(q)
  PROVE  AnswersAtOnce(q)
<1> DEFINE r == Report(q)
<1>1. requests[q].at = "new" /\ Answer(q, r, "500")
  BY DEF ReportCannotBeShown, ReportAdmitted
<1>2. r \in Request /\ r.kind = "report"
  BY <1>1, ReportLocals, Zenon DEF HasRead
<1>3. UNCHANGED <<status, notifier, table, faults, got>>
  BY DEF ReportCannotBeShown
<1> HIDE DEF r
<1>4. FormsUnderstood(r.kind, r.body, r.read, r.payload, r.by)
  BY <1>2, NoQuestion
<1>5. "500" \in {"401", "503", "404", "500", "ok"}
  OBVIOUS
<1> QED
  BY <1>1, <1>2, <1>3, <1>4, <1>5, AnswersOnce

\* and one that has nothing to send.
LEMMA CallbackSendsNothingKind ==
  ASSUME Ready, NEW q \in Requests, NEW body \in Contents, CallbackSendsNothing(q, body)
  PROVE  AnswersAtOnce(q)
<1> DEFINE r == Callback(q, body)
<1>1. requests[q].at = "new" /\ Answer(q, r, "ok")
  BY DEF CallbackSendsNothing
<1>2. /\ r \in Request /\ r.kind = "callback" /\ r.body = body /\ r.read = Recorded
      /\ r.payload = PayloadFor(body) /\ r.by = notifier
  BY <1>1, CallbackLocals, Zenon DEF HasRead
<1>3. UNCHANGED <<status, notifier, table, faults, got>>
  BY DEF CallbackSendsNothing
<1> HIDE DEF r
<1>5. FormsUnderstood("callback", body, Recorded, PayloadFor(body), notifier)
  BY QuestionHeard DEF Ready
<1>6. FormsUnderstood(r.kind, r.body, r.read, r.payload, r.by)
  BY <1>2, <1>5, Zenon
<1>7. "ok" \in {"401", "503", "404", "500", "ok"}
  OBVIOUS
<1> QED
  BY <1>1, <1>2, <1>3, <1>6, <1>7, AnswersOnce

\* A request that can be formatted starts its push.
LEMMA StartsOnce ==
  ASSUME Ready, NEW q \in Requests, requests[q].at = "new", NEW r \in Request,
         Begin(q, r), r.answer = "", r.by = notifier, ~FormatRaises(r.payload),
         FormsUnderstood(r.kind, r.body, r.read, r.payload, r.by),
         UNCHANGED <<status, notifier, table, faults, got>>
  PROVE  StartsPush(q)
<1>1. Turns(q, r, "pushing", TRUE, r.answer)
  BY BeginTurns DEF Ready
<1>2. /\ status' = status /\ notifier' = notifier /\ queue' = queue /\ saved' = saved
      /\ got' = got /\ faults' = faults
  BY DEF table
<1>3. /\ Alone(q)
      /\ requests'[q].at = "pushing" /\ requests'[q].answer = r.answer
      /\ requests'[q].payload = r.payload /\ requests'[q].by = r.by
      /\ requests'[q].pushed = TRUE
  BY <1>1, <1>2, Zenon DEF Turns, Alone
<1>4. requests'[q].pushed /\ Understood(q)'
  <2>1. Understood(q)'
    BY <1>1, Zenon DEF Turns, Understood, FormsUnderstood
  <2> QED
    BY <1>3, <2>1
<1>5. notifier \in Notifiers /\ CouldBeShown(r.payload, notifier)
  BY FormatIs, Zenon DEF Ready, TypeOK
<1>6. requests'[q].by \in Notifiers /\ CouldBeShown(requests'[q].payload, requests'[q].by)
  BY <1>3, <1>5, Zenon
<1> QED
  BY <1>2, <1>3, <1>4, <1>6, Zenon DEF StartsPush

\* A report does so,
LEMMA PushReportKind ==
  ASSUME Ready, NEW q \in Requests, PushReport(q)
  PROVE  StartsPush(q)
<1> DEFINE r == Report(q)
<1>1. requests[q].at = "new" /\ Begin(q, r) /\ ~FormatRaises(Of(Recorded))
  BY DEF PushReport, ReportAdmitted
<1>2. /\ r \in Request /\ r.kind = "report" /\ r.payload = Of(Recorded) /\ r.by = notifier
      /\ r.answer = ""
  BY <1>1, ReportLocals, Zenon DEF HasRead
<1>3. UNCHANGED <<status, notifier, table, faults, got>>
  BY DEF PushReport
<1> HIDE DEF r
<1>4. FormsUnderstood(r.kind, r.body, r.read, r.payload, r.by)
  BY <1>2, NoQuestion
<1>5. ~FormatRaises(r.payload)
  BY <1>1, <1>2, Zenon
<1> QED
  BY <1>1, <1>2, <1>3, <1>4, <1>5, StartsOnce

\* and a callback with something to send.
LEMMA PushCallbackKind ==
  ASSUME Ready, NEW q \in Requests, NEW body \in Contents, PushCallback(q, body)
  PROVE  StartsPush(q)
<1> DEFINE r == Callback(q, body)
<1>1. requests[q].at = "new" /\ Begin(q, r) /\ ~FormatRaises(PayloadFor(body))
  BY DEF PushCallback
<1>2. /\ r \in Request /\ r.kind = "callback" /\ r.body = body /\ r.read = Recorded
      /\ r.payload = PayloadFor(body) /\ r.by = notifier /\ r.answer = ""
  BY <1>1, CallbackLocals, Zenon DEF HasRead
<1>3. UNCHANGED <<status, notifier, table, faults, got>>
  BY DEF PushCallback
<1> HIDE DEF r
<1>4. FormsUnderstood("callback", body, Recorded, PayloadFor(body), notifier)
  BY QuestionHeard DEF Ready
<1>5. FormsUnderstood(r.kind, r.body, r.read, r.payload, r.by)
  BY <1>2, <1>4, Zenon
<1>6. ~FormatRaises(r.payload)
  BY <1>1, <1>2, Zenon
<1> QED
  BY <1>1, <1>2, <1>3, <1>5, <1>6, StartsOnce

\* The push reaches the receiver.
LEMMA ReceiveKind ==
  ASSUME Ready, NEW q \in Requests, Receive(q)
  PROVE  IsReceived(q)
<1> DEFINE r == requests[q]
<1>1. r.at = "pushing" /\ Set(q, [r EXCEPT !.at = "received"])
  BY DEF Receive
<1>2. r.answer = ""
  BY <1>1 DEF Ready, Progress
<1>3. Turns(q, r, "received", r.pushed, r.answer)
  BY <1>1, ReceiveTurns DEF Ready
<1>4. /\ got' = got \cup {CopyOf(q)} /\ queue' = queue /\ saved' = saved
      /\ faults' = faults /\ status' = status /\ notifier' = notifier
  BY DEF Receive, table
<1>5. Alone(q) /\ requests'[q].at = "received" /\ requests'[q].answer = r.answer
  BY <1>3, <1>4, OneTurn
<1>6. Keeps(q)
  BY <1>3, Zenon DEF Turns, Keeps
<1> QED
  BY <1>1, <1>2, <1>4, <1>5, <1>6, Zenon DEF IsReceived

\* A push that is over.
LEMMA EndsOnce ==
  ASSUME Ready, NEW q \in Requests, requests[q].at \in {"pushing", "received"},
         NEW code \in Answers, Answer(q, requests[q], code),
         status' = status, notifier' = notifier
  PROVE  /\ Alone(q) /\ Keeps(q)
         /\ requests'[q].at = "done" /\ requests'[q].answer = code
<1> DEFINE r == requests[q]
<1>1. r \in Request
  BY DEF Ready, RequestsTyped
<1>2. Turns(q, r, "done", r.pushed, code)
  BY <1>1, AnswerTurns DEF Ready
<1>3. Alone(q) /\ requests'[q].at = "done" /\ requests'[q].answer = code
  BY <1>2, OneTurn
<1>4. Keeps(q)
  BY <1>2, Zenon DEF Turns, Keeps
<1> QED
  BY <1>3, <1>4

\* A push that was answered ends its request,
LEMMA SentKind ==
  ASSUME Ready, NEW q \in Requests, Sent(q)
  PROVE  Ends(q, "sent") \/ Ends(q, "ok")
<1> DEFINE code == IF requests[q].kind = "report" THEN "sent" ELSE "ok"
<1>1. requests[q].at = "received" /\ Answer(q, requests[q], code)
  BY DEF Sent
<1>2. code \in {"sent", "ok"} /\ code # "queued" /\ code # "500"
  OBVIOUS
<1>3. code \in Answers /\ requests[q].at \in {"pushing", "received"}
  BY <1>1, <1>2 DEF Answers
<1>4. /\ status' = status /\ notifier' = notifier /\ queue' = queue /\ saved' = saved
      /\ got' = got /\ faults' \in 0 .. MaxFaults
  BY DEF Sent, Ready, TypeOK, table
<1> HIDE DEF code
<1>5. /\ Alone(q) /\ Keeps(q)
      /\ requests'[q].at = "done" /\ requests'[q].answer = code
  BY <1>1, <1>3, <1>4, EndsOnce
<1>6. Ends(q, code)
  BY <1>1, <1>2, <1>3, <1>4, <1>5, Zenon DEF Ends
<1> QED
  BY <1>2, <1>6

\* a report whose push fails ends in the table,
LEMMA ReportFailsKind ==
  ASSUME Ready, NEW q \in Requests, ReportFails(q)
  PROVE  Ends(q, "queued")
<1>1. requests[q].at \in {"pushing", "received"} /\ Answer(q, requests[q], "queued")
  BY DEF ReportFails
<1>2. "queued" \in Answers /\ "queued" \notin {"sent", "ok"} /\ "queued" # "500" /\ "queued" # "sent"
  BY DEF Answers
<1>3. /\ status' = status /\ notifier' = notifier
      /\ queue' = queue \cup {CopyOf(q)} /\ saved' = queue'
      /\ got' = got /\ faults' \in 0 .. MaxFaults
  BY DEF ReportFails, Ready, TypeOK
<1>4. /\ Alone(q) /\ Keeps(q)
      /\ requests'[q].at = "done" /\ requests'[q].answer = "queued"
  BY <1>1, <1>2, <1>3, EndsOnce
<1> QED
  BY <1>1, <1>2, <1>3, <1>4, Zenon DEF Ends

\* a callback whose push fails ends without a trace,
LEMMA CallbackFailsKind ==
  ASSUME Ready, NEW q \in Requests, CallbackFails(q)
  PROVE  Ends(q, "ok")
<1>1. requests[q].at \in {"pushing", "received"} /\ Answer(q, requests[q], "ok")
  BY DEF CallbackFails
<1>2. "ok" \in Answers /\ "ok" # "sent" /\ "ok" # "queued" /\ "ok" # "500"
  BY DEF Answers
<1>3. /\ status' = status /\ notifier' = notifier /\ queue' = queue /\ saved' = saved
      /\ got' = got /\ faults' \in 0 .. MaxFaults
  BY DEF CallbackFails, Ready, TypeOK, table
<1>4. /\ Alone(q) /\ Keeps(q)
      /\ requests'[q].at = "done" /\ requests'[q].answer = "ok"
  BY <1>1, <1>2, <1>3, EndsOnce
<1> QED
  BY <1>1, <1>2, <1>3, <1>4, Zenon DEF Ends

\* and a report whose enqueue fails ends with an error.
LEMMA EnqueueErrorKind ==
  ASSUME Ready, NEW q \in Requests, EnqueueError(q)
  PROVE  Ends(q, "500")
<1>1. requests[q].at \in {"pushing", "received"} /\ Answer(q, requests[q], "500")
  BY DEF EnqueueError
<1>2. "500" \in Answers /\ "500" \notin {"sent", "ok"} /\ "500" # "sent" /\ "500" # "queued"
  BY DEF Answers
<1>3. /\ status' = status /\ notifier' = notifier
      /\ queue' \in {queue, queue \cup {CopyOf(q)}} /\ saved' = saved
      /\ got' = got /\ faults' \in 0 .. MaxFaults
  BY DashboardAssumption DEF EnqueueError, Ready, TypeOK
<1>4. /\ Alone(q) /\ Keeps(q)
      /\ requests'[q].at = "done" /\ requests'[q].answer = "500"
  BY <1>1, <1>2, <1>3, EndsOnce
<1> QED
  BY <1>1, <1>2, <1>3, <1>4, Zenon DEF Ends

\* Every step of a request is of one of the four kinds.
LEMMA RequestKinds ==
  ASSUME Ready, NEW q \in Requests,
         \/ RefuseReport(q) \/ ReportCannotBeShown(q) \/ PushReport(q)
         \/ CallbackWithoutText(q)
         \/ \E body \in Contents : CallbackSendsNothing(q, body) \/ PushCallback(q, body)
         \/ Receive(q) \/ Sent(q) \/ ReportFails(q) \/ CallbackFails(q) \/ EnqueueError(q)
  PROVE  \/ AnswersAtOnce(q) \/ StartsPush(q) \/ IsReceived(q)
         \/ \E code \in {"sent", "ok", "queued", "500"} : Ends(q, code)
<1>1. \A code : code \in {"sent", "ok", "queued", "500"}
                  <=> code = "sent" \/ code = "ok" \/ code = "queued" \/ code = "500"
  OBVIOUS
<1> QED
  BY <1>1, RefuseReportKind, ReportCannotBeShownKind, PushReportKind, CallbackWithoutTextKind,
     CallbackSendsNothingKind, PushCallbackKind, ReceiveKind, SentKind, ReportFailsKind,
     CallbackFailsKind, EnqueueErrorKind, Zenon

-----------------------------------------------------------------------------
(* The invariant, one kind of step after the other. *)

\* What the answer of one request says, as AnswersTellTheTruth demands it.
Truth(q) ==
  LET r == requests[q] IN
  /\ r.answer = "sent" => CopyOf(q) \in got
  /\ r.answer = "queued" => CopyOf(q) \in (queue \cap saved) \cup got
  /\ r.answer \in {"401", "503", "404"} => Copies(q) = {}
  /\ r.answer = "500" /\ ~r.pushed => Copies(q) = {}

RestTyped ==
  /\ status \in [Nodes -> Status \cup {Unknown}]
  /\ notifier \in Notifiers
  /\ faults \in 0 .. MaxFaults
  /\ queue \subseteq Copy
  /\ saved \subseteq Copy
  /\ got \subseteq Copy

PerRequest(q) == Progress(q) /\ Truth(q) /\ Understood(q)

Inv ==
  /\ RequestsTyped
  /\ RestTyped
  /\ CopiesAccounted
  /\ \A q \in Requests : PerRequest(q)

\* The types the invariant keeps are those of TypeOK.
LEMMA TypesFollow == RequestsTyped /\ RestTyped => TypeOK
<1> SUFFICES ASSUME RequestsTyped, RestTyped PROVE TypeOK
  OBVIOUS
<1>1. \A q \in Requests :
        LET r == requests[q] IN
        /\ r.at \in {"new", "pushing", "received", "done"} /\ r.kind \in Kinds
        /\ r.read \subseteq Nodes /\ r.payload \in Payload
        /\ r.by \in Notifiers \cup {"none"} /\ r.pushed \in BOOLEAN /\ r.answer \in Answers
  BY RequestParts DEF RequestsTyped
<1> QED
  BY <1>1, Zenon DEF TypeOK, RestTyped

\* The invariant gives the types and, request by request, the properties.
LEMMA InvGives ==
  ASSUME Inv
  PROVE  Ready /\ AnswersTellTheTruth /\ PlainFormsUnderstood
<1>1. Ready
  BY TypesFollow, Zenon DEF Inv, PerRequest, Ready
<1>2. AnswersTellTheTruth
  BY Zenon DEF Inv, PerRequest, Truth, AnswersTellTheTruth
<1> QED
  BY <1>1, <1>2, RobotHeard, Zenon DEF Inv, PerRequest

\* The copy of a request that some notifier pushed has its type.
LEMMA CopyTyped ==
  ASSUME RequestsTyped, NEW q \in Requests, requests[q].by \in Notifiers
  PROVE  CopyOf(q) \in Copy
<1>1. requests[q].payload \in Payload
  BY RequestParts DEF RequestsTyped
<1> QED
  BY <1>1 DEF CopyOf, Copy

\* The parts of the copy.
LEMMA CopyParts ==
  ASSUME NEW q
  PROVE  /\ CopyOf(q).request = q /\ CopyOf(q).payload = requests[q].payload
         /\ CopyOf(q).by = requests[q].by
BY DEF CopyOf

\* Before its outcome a request has queued nothing, before its push sent nothing.
LEMMA NoTrace ==
  ASSUME Inv, NEW q \in Requests, requests[q].at # "done"
  PROVE  /\ \A copy \in queue \cup saved : copy.request # q
         /\ requests[q].at = "new" => \A copy \in queue \cup saved \cup got : copy.request # q
<1>1. requests[q].answer = ""
  BY DEF Inv, PerRequest, Progress
<1>2. requests[q].answer \notin {"queued", "500"}
  BY <1>1
<1>3. \A copy \in queue \cup saved : copy.request # q
  BY <1>2, Zenon DEF Inv, CopiesAccounted
<1>4. requests[q].at = "new" => \A copy \in got : copy.request # q
  BY Zenon DEF Inv, CopiesAccounted
<1> QED
  BY <1>3, <1>4

\* What keeps the promises to a request that does not move: what is committed
\* stays so until it arrives, and no copy of the request comes from nowhere.
Undisturbed(q) ==
  /\ got \subseteq got'
  /\ \A copy \in queue \cap saved : copy \in (queue' \cap saved') \cup got'
  /\ \A copy \in queue' \cup saved' \cup got' :
       copy.request = q => copy \in queue \cup saved \cup got

\* Such a request is still told the truth.
LEMMA StillTrue ==
  ASSUME NEW q \in Requests, Undisturbed(q), PerRequest(q),
         CopyOf(q)' = CopyOf(q), requests'[q].answer = requests[q].answer,
         requests'[q].pushed = requests[q].pushed
  PROVE  Truth(q)'
<1>1. CopyOf(q) \in (queue \cap saved) \cup got => CopyOf(q)' \in (queue' \cap saved') \cup got'
  BY DEF Undisturbed
<1>2. CopyOf(q) \in got => CopyOf(q)' \in got'
  BY DEF Undisturbed
<1>3. Copies(q) = {} => Copies(q)' = {}
  BY DEF Undisturbed, Copies
<1> QED
  BY <1>1, <1>2, <1>3, Zenon DEF PerRequest, Truth

\* A step of one request does not disturb another one.
LEMMA OthersUndisturbed ==
  ASSUME Inv, NEW q \in Requests, Alone(q), NEW p \in Requests, p # q, Undisturbed(p)
  PROVE  PerRequest(p)'
<1>1. requests'[p] = requests[p]
  BY DEF Alone
<1>2. CopyOf(p)' = CopyOf(p)
  BY <1>1, Zenon DEF CopyOf
<1>3. PerRequest(p)
  BY DEF Inv
<1>4. Progress(p)'
  <2>1. CopyOf(p) \in got => CopyOf(p)' \in got'
    BY <1>2 DEF Undisturbed
  <2> QED
    BY <1>1, <1>3, <2>1, Zenon DEF PerRequest, Progress, CouldBeShown
<1>5. Truth(p)'
  BY <1>1, <1>2, <1>3, StillTrue, Zenon
<1>6. Understood(p)'
  BY <1>1, <1>3, Zenon DEF PerRequest, Understood, FormsUnderstood
<1> QED
  BY <1>4, <1>5, <1>6, Zenon DEF PerRequest

\* Nobody is disturbed where the table and the receiver stay as they are.
LEMMA NothingDisturbed ==
  ASSUME NEW q, queue' = queue, saved' = saved, got' = got
  PROVE  Undisturbed(q)
BY DEF Undisturbed

\* A step of a request of which there is no copy yet leaves all of them in order.
LEMMA CopiesUndisturbed ==
  ASSUME Inv, NEW q \in Requests, Alone(q), queue' = queue, saved' = saved, got' = got,
         \A copy \in queue \cup saved \cup got : copy.request # q
  PROVE  CopiesAccounted'
<1>1. \A copy \in queue \cup saved \cup got : copy.request \in Requests
  BY DEF Inv, RestTyped, Copy
<1>2. \A copy \in queue \cup saved \cup got :
        requests'[copy.request] = requests[copy.request]
  BY <1>1 DEF Alone
<1>3. /\ \A copy \in queue' \cup saved' : requests'[copy.request] = requests[copy.request]
      /\ \A copy \in got' : requests'[copy.request] = requests[copy.request]
  BY <1>2
<1>4. queue' \cup saved' = queue \cup saved
  OBVIOUS
<1> QED
  BY <1>3, <1>4, Zenon DEF Inv, CopiesAccounted, CouldBeShown

\* Each kind of step keeps the invariant: an answer at once,
LEMMA AnswersAtOnceKeeps ==
  ASSUME Inv, NEW q \in Requests, AnswersAtOnce(q)
  PROVE  Inv'
<1>1. /\ Alone(q) /\ queue' = queue /\ saved' = saved /\ got' = got /\ faults' = faults
  BY DEF AnswersAtOnce
<1>2. RequestsTyped' /\ RestTyped'
  BY <1>1, Zenon DEF Alone, Inv, RestTyped
<1>3. \A copy \in queue \cup saved \cup got : copy.request # q
  <2>1. requests[q].at = "new" /\ requests[q].at # "done"
    BY DEF AnswersAtOnce
  <2> QED
    BY <2>1, NoTrace
<1>4. requests'[q].at = "done" /\ requests'[q].answer \in {"401", "503", "404", "500", "ok"}
  BY DEF AnswersAtOnce
<1>5. Progress(q)'
  BY <1>4 DEF Progress
<1>6. Truth(q)'
  <2>1. requests'[q].answer # "sent" /\ requests'[q].answer # "queued"
    BY <1>4
  <2>2. Copies(q)' = {}
    BY <1>1, <1>3 DEF Copies
  <2> QED
    BY <2>1, <2>2, Zenon DEF Truth
<1>7. Understood(q)'
  BY DEF AnswersAtOnce
<1>8. \A p \in Requests : PerRequest(p)'
  BY <1>1, <1>5, <1>6, <1>7, NothingDisturbed, OthersUndisturbed, Zenon DEF PerRequest
<1>9. CopiesAccounted'
  BY <1>1, <1>3, CopiesUndisturbed, Zenon
<1> QED
  BY <1>2, <1>8, <1>9, Zenon DEF Inv

\* the start of a push,
LEMMA StartsPushKeeps ==
  ASSUME Inv, NEW q \in Requests, StartsPush(q)
  PROVE  Inv'
<1>1. /\ Alone(q) /\ queue' = queue /\ saved' = saved /\ got' = got /\ faults' = faults
  BY DEF StartsPush
<1>2. RequestsTyped' /\ RestTyped'
  BY <1>1, Zenon DEF Alone, Inv, RestTyped
<1>3. \A copy \in queue \cup saved \cup got : copy.request # q
  <2>1. requests[q].at = "new" /\ requests[q].at # "done"
    BY DEF StartsPush
  <2> QED
    BY <2>1, NoTrace
<1>4. requests'[q].at = "pushing" /\ requests'[q].answer = ""
  BY DEF StartsPush
<1>5. Progress(q)'
  <2>1. /\ requests'[q].at # "new" /\ requests'[q].at # "received"
        /\ requests'[q].by \in Notifiers /\ requests'[q].pushed
    BY <1>4 DEF StartsPush
  <2>2. CouldBeShown(requests'[q].payload, requests'[q].by)
    BY DEF StartsPush
  <2> QED
    BY <1>4, <2>1, <2>2, Zenon DEF Progress, CouldBeShown
<1>6. Truth(q)'
  BY <1>4 DEF Truth
<1>7. Understood(q)'
  BY DEF StartsPush
<1>8. \A p \in Requests : PerRequest(p)'
  BY <1>1, <1>5, <1>6, <1>7, NothingDisturbed, OthersUndisturbed, Zenon DEF PerRequest
<1>9. CopiesAccounted'
  BY <1>1, <1>3, CopiesUndisturbed, Zenon
<1> QED
  BY <1>2, <1>8, <1>9, Zenon DEF Inv

\* A request that keeps its locals keeps its copy and what the robot was asked.
LEMMA KeepsCopy ==
  ASSUME Inv, NEW q \in Requests, Keeps(q)
  PROVE  /\ CopyOf(q)' = CopyOf(q)
         /\ Understood(q)'
<1>1. CopyOf(q)' = CopyOf(q)
  BY Zenon DEF Keeps, CopyOf
<1>2. Understood(q)
  BY DEF Inv, PerRequest
<1>3. Understood(q)'
  BY <1>2, Zenon DEF Keeps, Understood, FormsUnderstood
<1> QED
  BY <1>1, <1>3

\* its arrival,
LEMMA IsReceivedKeeps ==
  ASSUME Inv, NEW q \in Requests, IsReceived(q)
  PROVE  Inv'
<1>1. /\ Alone(q) /\ Keeps(q) /\ got' = got \cup {CopyOf(q)}
      /\ queue' = queue /\ saved' = saved /\ faults' = faults
  BY DEF IsReceived
<1>2. /\ requests[q].at = "pushing" /\ requests[q].at # "done" /\ requests[q].at # "new"
      /\ requests'[q].at = "received" /\ requests'[q].answer = ""
  BY DEF IsReceived
<1>3. /\ requests[q].pushed /\ requests[q].by \in Notifiers
      /\ CouldBeShown(requests[q].payload, requests[q].by)
  BY <1>2 DEF Inv, PerRequest, Progress
<1>4. CopyOf(q) \in Copy
  BY <1>3, CopyTyped DEF Inv
<1>5. RequestsTyped' /\ RestTyped'
  <2>1. got' \subseteq Copy
    BY <1>1, <1>4 DEF Inv, RestTyped
  <2> QED
    BY <1>1, <2>1, Zenon DEF Alone, Inv, RestTyped
<1>6. CopyOf(q)' = CopyOf(q) /\ Understood(q)'
  BY <1>1, KeepsCopy
<1>7. Progress(q)'
  <2>1. /\ requests'[q].pushed /\ requests'[q].by \in Notifiers
        /\ CouldBeShown(requests'[q].payload, requests'[q].by)
    BY <1>1, <1>3, Zenon DEF Keeps
  <2>2. CopyOf(q)' \in got'
    BY <1>1, <1>6
  <2>3. requests'[q].at # "new"
    BY <1>2
  <2> QED
    BY <1>2, <2>1, <2>2, <2>3, Zenon DEF Progress, CouldBeShown
<1>8. Truth(q)'
  BY <1>2 DEF Truth
<1>9. \A p \in Requests : PerRequest(p)'
  <2>1. ASSUME NEW p \in Requests, p # q
        PROVE  Undisturbed(p)
    BY <1>1, <2>1, CopyParts DEF Undisturbed
  <2> QED
    BY <1>1, <1>6, <1>7, <1>8, <2>1, OthersUndisturbed, Zenon DEF PerRequest
<1>10. \A copy \in queue \cup saved : copy.request # q
  BY <1>2, NoTrace
<1>11. CopiesAccounted'
  <2>1. \A copy \in queue \cup saved \cup got : copy.request \in Requests
    BY DEF Inv, RestTyped, Copy
  <2>2. \A copy \in queue \cup saved : requests'[copy.request] = requests[copy.request]
    BY <1>1, <1>10, <2>1 DEF Alone
  <2>3. ASSUME NEW copy \in got'
        PROVE  /\ requests'[copy.request].at # "new"
               /\ requests'[copy.request].answer \notin {"401", "503", "404"}
    <3>1. CASE copy.request = q
      BY <1>2, <3>1
    <3>2. CASE copy.request # q
      <4>1. copy \in got
        BY <1>1, <3>2, CopyParts
      <4>2. requests'[copy.request] = requests[copy.request]
        BY <1>1, <2>1, <3>2, <4>1 DEF Alone
      <4> QED
        BY <4>1, <4>2, Zenon DEF Inv, CopiesAccounted
    <3> QED
      BY <3>1, <3>2
  <2>4. queue' \cup saved' = queue \cup saved
    BY <1>1
  <2> QED
    BY <2>2, <2>3, <2>4, Zenon DEF Inv, CopiesAccounted, CouldBeShown
<1> QED
  BY <1>5, <1>9, <1>11, Zenon DEF Inv

\* the end of a request after its push,
LEMMA EndsKeeps ==
  ASSUME Inv, NEW q \in Requests, NEW code \in {"sent", "ok", "queued", "500"}, Ends(q, code)
  PROVE  Inv'
<1>1. /\ Alone(q) /\ Keeps(q) /\ got' = got /\ faults' \in 0 .. MaxFaults
      /\ requests[q].at \in {"pushing", "received"}
      /\ requests'[q].at = "done" /\ requests'[q].answer = code
      /\ code = "sent" => requests[q].at = "received"
  BY DEF Ends
<1>2. requests[q].at # "done" /\ requests[q].at # "new"
  BY <1>1
<1>3. /\ requests[q].pushed /\ requests[q].by \in Notifiers
      /\ CouldBeShown(requests[q].payload, requests[q].by)
  BY <1>1 DEF Inv, PerRequest, Progress
<1>4. CopyOf(q) \in Copy
  BY <1>3, CopyTyped DEF Inv
<1>5. /\ code = "queued" => queue' = queue \cup {CopyOf(q)} /\ saved' = queue'
      /\ code = "500" => queue' \in {queue, queue \cup {CopyOf(q)}} /\ saved' = saved
      /\ code \in {"sent", "ok"} => queue' = queue /\ saved' = saved
  BY DEF Ends
<1>6. /\ queue' \subseteq Copy /\ saved' \subseteq Copy
      /\ \A copy \in queue \cap saved : copy \in queue' \cap saved'
      /\ \A copy \in queue' \cup saved' :
           copy \in queue \cup saved \/ (code \in {"queued", "500"} /\ copy = CopyOf(q))
  <2>1. queue \subseteq Copy /\ saved \subseteq Copy
    BY DEF Inv, RestTyped
  <2>2. CASE code = "queued"
    BY <1>4, <1>5, <2>1, <2>2
  <2>3. CASE code = "500"
    BY <1>4, <1>5, <2>1, <2>3
  <2>4. CASE code \in {"sent", "ok"}
    BY <1>5, <2>1, <2>4
  <2> QED
    BY <2>2, <2>3, <2>4
<1>7. RequestsTyped' /\ RestTyped'
  BY <1>1, <1>6, Zenon DEF Alone, Inv, RestTyped
<1>8. CopyOf(q)' = CopyOf(q) /\ Understood(q)'
  BY <1>1, KeepsCopy
<1>9. \A copy \in queue \cup saved : copy.request # q
  BY <1>2, NoTrace
<1>10. Progress(q)'
  BY <1>1 DEF Progress
<1>11. Truth(q)'
  <2>1. code = "sent" => CopyOf(q)' \in got'
    BY <1>1, <1>8 DEF Inv, PerRequest, Progress
  <2>2. code = "queued" => CopyOf(q)' \in (queue' \cap saved') \cup got'
    BY <1>5, <1>8
  <2>3. code \notin {"401", "503", "404"}
    OBVIOUS
  <2>4. requests'[q].pushed
    BY <1>1, <1>3 DEF Keeps
  <2> QED
    BY <1>1, <2>1, <2>2, <2>3, <2>4, Zenon DEF Truth
<1>12. \A p \in Requests : PerRequest(p)'
  <2>1. ASSUME NEW p \in Requests, p # q
        PROVE  Undisturbed(p)
    BY <1>1, <1>6, <2>1, CopyParts DEF Undisturbed
  <2> QED
    BY <1>1, <1>8, <1>10, <1>11, <2>1, OthersUndisturbed, Zenon DEF PerRequest
<1>13. CopiesAccounted'
  <2>1. \A copy \in queue \cup saved \cup got : copy.request \in Requests
    BY DEF Inv, RestTyped, Copy
  <2>2. \A copy \in queue \cup saved : requests'[copy.request] = requests[copy.request]
    BY <1>1, <1>9, <2>1 DEF Alone
  <2>3. ASSUME NEW copy \in queue' \cup saved'
        PROVE  /\ requests'[copy.request].answer \in {"queued", "500"}
               /\ CouldBeShown(copy.payload, copy.by)
    <3>1. CASE copy \in queue \cup saved
      BY <2>2, <3>1, Zenon DEF Inv, CopiesAccounted
    <3>2. CASE code \in {"queued", "500"} /\ copy = CopyOf(q)
      BY <1>1, <1>3, <3>2, CopyParts, Zenon
    <3> QED
      BY <1>6, <3>1, <3>2
  <2>4. ASSUME NEW copy \in got'
        PROVE  /\ requests'[copy.request].at # "new"
               /\ requests'[copy.request].answer \notin {"401", "503", "404"}
    <3>1. CASE copy.request = q
      BY <1>1, <3>1
    <3>2. CASE copy.request # q
      <4>1. copy \in got
        BY <1>1
      <4>2. requests'[copy.request] = requests[copy.request]
        BY <1>1, <2>1, <3>2, <4>1 DEF Alone
      <4> QED
        BY <4>1, <4>2, Zenon DEF Inv, CopiesAccounted
    <3> QED
      BY <3>1, <3>2
  <2> QED
    BY <2>3, <2>4, Zenon DEF CopiesAccounted, CouldBeShown
<1> QED
  BY <1>7, <1>12, <1>13, Zenon DEF Inv

-----------------------------------------------------------------------------
(* The rest of the process. *)

\* A step of the cycle that adds nothing to the table keeps the invariant if it
\* disturbs no request.
LEMMA TableStepKeeps ==
  ASSUME Inv, RestTyped', requests' = requests,
         \A copy \in queue' \cup saved' : copy \in queue \cup saved,
         \A copy \in got' : copy \in queue \cup saved \cup got,
         \A q \in Requests : Undisturbed(q)
  PROVE  Inv'
<1>1. RequestsTyped'
  BY Zenon DEF Inv, RequestsTyped
<1>2. ASSUME NEW copy \in queue \cup saved
      PROVE  /\ requests[copy.request].at # "new"
             /\ requests[copy.request].answer \notin {"401", "503", "404"}
  <2>1. requests[copy.request].answer \in {"queued", "500"}
    BY Zenon DEF Inv, CopiesAccounted
  <2>2. copy.request \in Requests
    BY DEF Inv, RestTyped, Copy
  <2>3. requests[copy.request].at = "done"
    BY <2>1, <2>2 DEF Inv, PerRequest, Progress
  <2> QED
    BY <2>1, <2>3
<1>3. CopiesAccounted'
  <2>1. \A copy \in got' : /\ requests[copy.request].at # "new"
                           /\ requests[copy.request].answer \notin {"401", "503", "404"}
    BY <1>2, Zenon DEF Inv, CopiesAccounted
  <2> QED
    BY <2>1, Zenon DEF Inv, CopiesAccounted, CouldBeShown
<1>4. ASSUME NEW q \in Requests
      PROVE  PerRequest(q)'
  <2>1. PerRequest(q) /\ Undisturbed(q)
    BY DEF Inv
  <2>2. CopyOf(q)' = CopyOf(q)
    BY Zenon DEF CopyOf
  <2>3. Progress(q)'
    <3>1. CopyOf(q) \in got => CopyOf(q)' \in got'
      BY <2>1, <2>2 DEF Undisturbed
    <3> QED
      BY <2>1, <3>1, Zenon DEF PerRequest, Progress, CouldBeShown
  <2>4. Truth(q)'
    BY <2>1, <2>2, StillTrue, Zenon
  <2>5. Understood(q)'
    BY <2>1, Zenon DEF PerRequest, Understood, FormsUnderstood
  <2> QED
    BY <2>3, <2>4, <2>5, Zenon DEF PerRequest
<1> QED
  BY <1>1, <1>3, <1>4, Zenon DEF Inv

\* A commit of what the connection reads,
LEMMA CommitDisturbsNone ==
  ASSUME NEW q, queue' = queue, saved' = queue, got' = got
  PROVE  Undisturbed(q)
BY DEF Undisturbed

\* so a cycle's write of a status,
LEMMA RecordKeeps ==
  ASSUME Inv, NEW n \in Nodes, Record(n)
  PROVE  Inv'
<1>1. /\ notifier' = notifier /\ requests' = requests /\ queue' = queue /\ saved' = queue
      /\ faults' = faults /\ got' = got
  BY DEF Record
<1>2. PICK s \in Status : status' = [status EXCEPT ![n] = s]
  BY DEF Record
<1> HIDE DEF Status
<1>3. status' \in [Nodes -> Status \cup {Unknown}]
  BY <1>2 DEF Inv, RestTyped
<1>4. RestTyped'
  BY <1>1, <1>3, Zenon DEF Inv, RestTyped
<1>5. /\ \A copy \in queue' \cup saved' : copy \in queue \cup saved
      /\ \A copy \in got' : copy \in queue \cup saved \cup got
  BY <1>1
<1> QED
  BY <1>1, <1>4, <1>5, CommitDisturbsNone, TableStepKeeps

\* or of anything else,
LEMMA OtherCommitKeeps ==
  ASSUME Inv, OtherCommit
  PROVE  Inv'
<1>1. /\ status' = status /\ notifier' = notifier /\ requests' = requests
      /\ queue' = queue /\ saved' = queue /\ faults' = faults /\ got' = got
  BY DEF OtherCommit
<1>2. RestTyped'
  BY <1>1, Zenon DEF Inv, RestTyped
<1>3. /\ \A copy \in queue' \cup saved' : copy \in queue \cup saved
      /\ \A copy \in got' : copy \in queue \cup saved \cup got
  BY <1>1
<1> QED
  BY <1>1, <1>2, <1>3, CommitDisturbsNone, TableStepKeeps

\* a retry of a queued report, whether its bookkeeping is committed or not,
LEMMA RetryKeeps ==
  ASSUME Inv, NEW copy \in queue, Retry(copy) \/ RetryError(copy)
  PROVE  Inv'
<1>1. /\ status' = status /\ notifier' = notifier /\ requests' = requests
      /\ got' = got \cup {copy} /\ queue' \in {queue, queue \ {copy}}
  BY DEF Retry, RetryError, Retried
<1>2. saved' \in {saved, queue'} /\ faults' \in 0 .. MaxFaults
  BY DashboardAssumption DEF Retry, RetryError, Inv, RestTyped
<1>3. RestTyped'
  <2>1. queue' \subseteq Copy /\ saved' \subseteq Copy /\ got' \subseteq Copy
    BY <1>1, <1>2 DEF Inv, RestTyped
  <2> QED
    BY <1>1, <1>2, <2>1, Zenon DEF Inv, RestTyped
<1>4. /\ \A other \in queue' \cup saved' : other \in queue \cup saved
      /\ \A other \in got' : other \in queue \cup saved \cup got
  BY <1>1, <1>2
<1>5. ASSUME NEW q \in Requests
      PROVE  Undisturbed(q)
  <2>1. \A other \in queue \cap saved : other \in (queue' \cap saved') \cup got'
    BY <1>1, <1>2
  <2> QED
    BY <1>1, <1>4, <2>1 DEF Undisturbed
<1> QED
  BY <1>1, <1>3, <1>4, <1>5, TableStepKeeps

\* A crash ends the requests on their way; their answers are never given.
LEMMA CrashTurns ==
  ASSUME RequestsTyped, Crash, NEW q \in Requests
  PROVE  /\ requests'[q] \in Request /\ Keeps(q)
         /\ requests'[q].answer = requests[q].answer
         /\ IF requests[q].at \in {"pushing", "received"}
              THEN requests'[q].at = "done" ELSE requests'[q] = requests[q]
<1> DEFINE r == requests[q]
           whole == Locals(r.at, r.kind, r.body, r.read, r.payload, r.by, r.pushed, r.answer)
           last == [r EXCEPT !.at = "done"]
<1>1. r \in Request
  BY DEF RequestsTyped
<1>2. r = whole
  BY <1>1, RequestParts
<1>3. requests'[q] = IF r.at \in {"pushing", "received"} THEN last ELSE r
  BY Zenon DEF Crash
<1>4. [whole EXCEPT !.at = "done"] =
        Locals("done", r.kind, r.body, r.read, r.payload, r.by, r.pushed, r.answer)
  BY DEF Locals
<1> HIDE DEF whole
<1>5. last = Locals("done", r.kind, r.body, r.read, r.payload, r.by, r.pushed, r.answer)
  BY <1>2, <1>4, Zenon
<1> HIDE DEF last
<1>6. /\ last \in Request /\ last.at = "done" /\ last.kind = r.kind /\ last.body = r.body
      /\ last.read = r.read /\ last.payload = r.payload /\ last.by = r.by
      /\ last.pushed = r.pushed /\ last.answer = r.answer
  <2>1. /\ r.kind \in Kinds /\ r.body \in Contents \cup {<<>>} /\ r.read \in SUBSET Nodes
        /\ r.payload \in Payload /\ r.by \in Notifiers \cup {"none"}
        /\ r.pushed \in BOOLEAN /\ r.answer \in Answers
    BY <1>1, RequestParts
  <2> QED
    BY <1>5, <2>1 DEF Request, Locals
<1> HIDE DEF r
<1>7. CASE r.at \in {"pushing", "received"}
  <2>1. requests'[q] = last
    BY <1>3, <1>7, Zenon
  <2> QED
    BY <1>6, <1>7, <2>1, Zenon DEF Keeps, r
<1>8. CASE r.at \notin {"pushing", "received"}
  <2>1. requests'[q] = r
    BY <1>3, <1>8, Zenon
  <2> QED
    BY <1>1, <1>8, <2>1, Zenon DEF Keeps, r
<1> QED
  BY <1>7, <1>8

\* a crash, after which the service may have another notifier,
LEMMA CrashKeeps ==
  ASSUME Inv, Crash
  PROVE  Inv'
<1>1. /\ status' = status /\ queue' = saved /\ saved' = saved /\ got' = got
      /\ notifier' \in Notifiers /\ faults' \in 0 .. MaxFaults
  BY DashboardAssumption DEF Crash, Inv, RestTyped
<1>2. RequestsTyped' /\ RestTyped'
  <2>1. DOMAIN requests' = Requests
    BY DEF Crash
  <2>2. requests' = [q \in Requests |-> requests'[q]]
    BY DEF Crash
  <2>3. \A q \in Requests : requests'[q] \in Request
    BY CrashTurns DEF Inv
  <2>4. RequestsTyped'
    BY <2>2, <2>3, Zenon DEF RequestsTyped
  <2> QED
    BY <1>1, <2>4, Zenon DEF Inv, RestTyped
<1>3. ASSUME NEW q \in Requests
      PROVE  PerRequest(q)'
  <2>1. /\ Keeps(q) /\ requests'[q].answer = requests[q].answer
        /\ IF requests[q].at \in {"pushing", "received"}
             THEN requests'[q].at = "done" ELSE requests'[q] = requests[q]
    BY CrashTurns DEF Inv
  <2>2. CopyOf(q)' = CopyOf(q) /\ Understood(q)'
    BY <2>1, KeepsCopy
  <2>3. PerRequest(q)
    BY DEF Inv
  <2>4. Truth(q)'
    <3>1. Undisturbed(q)
      BY <1>1 DEF Undisturbed
    <3>2. requests'[q].pushed = requests[q].pushed
      BY <2>1 DEF Keeps
    <3> QED
      BY <2>1, <2>2, <2>3, <3>1, <3>2, StillTrue, Zenon
  <2>5. Progress(q)'
    <3>1. CASE requests[q].at \in {"pushing", "received"}
      <4>1. requests'[q].at = "done"
        BY <2>1, <3>1
      <4> QED
        BY <4>1 DEF Progress
    <3>2. CASE requests[q].at \notin {"pushing", "received"}
      <4>1. requests'[q] = requests[q]
        BY <2>1, <3>2
      <4> QED
        BY <1>1, <2>2, <2>3, <4>1, Zenon DEF PerRequest, Progress, CouldBeShown
    <3> QED
      BY <3>1, <3>2
  <2> QED
    BY <2>2, <2>4, <2>5, Zenon DEF PerRequest
<1>4. CopiesAccounted'
  <2>1. \A copy \in queue \cup saved \cup got : copy.request \in Requests
    BY DEF Inv, RestTyped, Copy
  <2>2. \A q \in Requests : requests'[q].answer = requests[q].answer
    BY CrashTurns DEF Inv
  <2>3. \A q \in Requests : requests[q].at # "new" => requests'[q].at # "new"
    <3> SUFFICES ASSUME NEW q \in Requests, requests[q].at # "new"
                 PROVE  requests'[q].at # "new"
      OBVIOUS
    <3>1. IF requests[q].at \in {"pushing", "received"}
            THEN requests'[q].at = "done" ELSE requests'[q] = requests[q]
      BY CrashTurns DEF Inv
    <3> QED
      BY <3>1
  <2>4. \A copy \in queue' \cup saved' : copy \in queue \cup saved
    BY <1>1
  <2> QED
    BY <1>1, <2>1, <2>2, <2>3, <2>4 DEF Inv, CopiesAccounted, CouldBeShown
<1> QED
  BY <1>2, <1>3, <1>4, Zenon DEF Inv

\* and a stutter.
LEMMA NothingKeeps ==
  ASSUME Inv, UNCHANGED vars
  PROVE  Inv'
<1>1. /\ status' = status /\ notifier' = notifier /\ requests' = requests /\ queue' = queue
      /\ saved' = saved /\ faults' = faults /\ got' = got
  BY DEF vars, table
<1> QED
  BY <1>1, Zenon DEF Inv, RequestsTyped, RestTyped, CopiesAccounted, CouldBeShown, PerRequest,
       Progress, Truth, Copies, CopyOf, Understood, FormsUnderstood

\* So every step keeps it,
LEMMA InvStep ==
  ASSUME Inv, [Next]_vars
  PROVE  Inv'
<1>1. ASSUME NEW q \in Requests,
             \/ RefuseReport(q) \/ ReportCannotBeShown(q) \/ PushReport(q)
             \/ CallbackWithoutText(q)
             \/ \E body \in Contents : CallbackSendsNothing(q, body) \/ PushCallback(q, body)
             \/ Receive(q) \/ Sent(q) \/ ReportFails(q) \/ CallbackFails(q) \/ EnqueueError(q)
      PROVE  Inv'
  <2>1. \/ AnswersAtOnce(q) \/ StartsPush(q) \/ IsReceived(q)
        \/ \E code \in {"sent", "ok", "queued", "500"} : Ends(q, code)
    BY <1>1, InvGives, RequestKinds
  <2> QED
    BY <2>1, AnswersAtOnceKeeps, StartsPushKeeps, IsReceivedKeeps, EndsKeeps
<1> QED
  BY <1>1, RecordKeeps, RetryKeeps, OtherCommitKeeps, CrashKeeps, NothingKeeps, Zenon DEF Next

\* it holds at the start,
LEMMA InvInit ==
  ASSUME Init
  PROVE  Inv
<1>1. /\ status = [n \in Nodes |-> Unknown] /\ notifier \in Notifiers
      /\ requests = [q \in Requests |-> NewRequest] /\ queue = {} /\ saved = {}
      /\ faults = 0 /\ got = {}
  BY DEF Init
<1>2. RequestsTyped
  BY <1>1, NewIsRequest, Zenon DEF RequestsTyped
<1>3. RestTyped
  <2>1. status \in [Nodes -> Status \cup {Unknown}]
    BY <1>1
  <2>2. faults \in 0 .. MaxFaults
    BY <1>1, DashboardAssumption
  <2>3. queue \subseteq Copy /\ saved \subseteq Copy /\ got \subseteq Copy
    BY <1>1
  <2> QED
    BY <1>1, <2>1, <2>2, <2>3, Zenon DEF RestTyped
<1>4. CopiesAccounted
  <2>1. queue \cup saved = {} /\ got = {}
    BY <1>1
  <2> QED
    BY <2>1, Zenon DEF CopiesAccounted
<1>5. ASSUME NEW q \in Requests
      PROVE  PerRequest(q)
  <2>1. requests[q] = NewRequest
    BY <1>1
  <2>2. NewRequest.at = "new" /\ NewRequest.answer = "" /\ NewRequest.by = "none"
    BY DEF NewRequest
  <2>3. Progress(q)
    BY <2>1, <2>2 DEF Progress
  <2>4. requests[q].answer = "" /\ requests[q].by = "none"
    BY <2>1, <2>2
  <2>5. Truth(q)
    BY <2>4 DEF Truth
  <2>6. Understood(q)
    BY <2>4, NoQuestion, Zenon DEF Understood
  <2> QED
    BY <2>3, <2>5, <2>6 DEF PerRequest
<1> QED
  BY <1>2, <1>3, <1>4, <1>5, Zenon DEF Inv

\* and in every state.
LEMMA InvHolds == Spec => []Inv
<1>1. Init => Inv
  BY InvInit
<1>2. Inv /\ [Next]_vars => Inv'
  BY InvStep
<1> QED
  BY <1>1, <1>2, PTL DEF Spec

-----------------------------------------------------------------------------
(* Sums over a set.  Nothing is known of a recursive function but its equation,  *)
(* and that only once there is a function that satisfies it; both inductions,    *)
(* for its existence and for the bounds on the sum, are about sets of numbers.    *)

\* A set of numbers that holds 0 and the successor of each of its members is Nat.
LEMMA Induction ==
  ASSUME NEW T \in SUBSET Nat, 0 \in T, \A k \in T : k + 1 \in T
  PROVE  Nat \subseteq T
<1> DEFINE Rest == Nat \ T
<1> SUFFICES ASSUME Rest # {} PROVE FALSE
  OBVIOUS
<1>1. PICK k \in Rest : \A j \in Rest : <<j, k>> \notin OpToRel(<, Nat)
  <2>1. Rest \subseteq Nat
    OBVIOUS
  <2> HIDE DEF Rest
  <2> QED
    BY <2>1, WFMin, NatLessThanWellFounded
<1>2. k # 0 /\ k \in Nat
  OBVIOUS
<1>3. k - 1 \in Rest
  <2>1. k - 1 \in Nat /\ (k - 1) + 1 = k
    BY <1>2
  <2> QED
    BY <2>1
<1>4. <<k - 1, k>> \in OpToRel(<, Nat)
  BY <1>2, <1>3, SMT DEF OpToRel
<1> QED
  BY <1>1, <1>3, <1>4

One(s) == CHOOSE x \in s : TRUE

\* The equation of the recursive function that MapThenSumSet sums with.
Sum(gpus, f, s) == IF s = {} THEN 0 ELSE gpus[One(s)].temp + f[s \ {One(s)}]

SumOn(gpus, f, D) == f = [s \in D |-> Sum(gpus, f, s)]

Small(S, k) == {s \in SUBSET S : Cardinality(s) <= k}

\* What is left of a set without one of its members.
LEMMA OneLess ==
  ASSUME NEW S, IsFiniteSet(S), NEW s \in SUBSET S, s # {}
  PROVE  /\ One(s) \in s /\ s \ {One(s)} \in SUBSET S
         /\ Cardinality(s) \in Nat \ {0}
         /\ Cardinality(s \ {One(s)}) = Cardinality(s) - 1
<1>1. One(s) \in s
  BY Zenon DEF One
<1>2. IsFiniteSet(s)
  BY FS_Subset
<1>3. Cardinality(s) \in Nat /\ Cardinality(s) # 0
  BY <1>2, FS_CardinalityType, FS_EmptySet
<1>4. Cardinality(s \ {One(s)}) = Cardinality(s) - 1
  BY <1>1, <1>2, FS_RemoveElement
<1> QED
  BY <1>1, <1>3, <1>4

\* A function on the sets of at most k members is extended by one step.
LEMMA SumFurther ==
  ASSUME NEW S, IsFiniteSet(S), NEW gpus, NEW k \in Nat, NEW f,
         SumOn(gpus, f, Small(S, k))
  PROVE  \E g : SumOn(gpus, g, Small(S, k + 1))
<1> DEFINE g == [s \in Small(S, k + 1) |-> Sum(gpus, f, s)]
<1>1. ASSUME NEW s \in Small(S, k + 1)
      PROVE  Sum(gpus, g, s) = Sum(gpus, f, s)
  <2>1. CASE s = {}
    BY <2>1 DEF Sum
  <2>2. CASE s # {}
    <3> DEFINE t == s \ {One(s)}
    <3>1. s \in SUBSET S /\ Cardinality(s) <= k + 1
      BY DEF Small
    <3>2. t \in SUBSET S /\ Cardinality(s) \in Nat /\ Cardinality(t) = Cardinality(s) - 1
      BY <2>2, <3>1, OneLess
    <3>3. t \in Small(S, k)
      BY <3>1, <3>2 DEF Small
    <3>4. t \in Small(S, k + 1)
      BY <3>1, <3>2 DEF Small
    <3> HIDE DEF t
    <3>5. f[t] = Sum(gpus, f, t)
      BY <3>3, Zenon DEF SumOn
    <3>6. g[t] = Sum(gpus, f, t)
      BY <3>4
    <3>7. gpus[One(s)].temp + g[t] = gpus[One(s)].temp + f[t]
      BY <3>5, <3>6
    <3> HIDE DEF g
    <3> QED
      BY <2>2, <3>7, Zenon DEF Sum, t
  <2> QED
    BY <2>1, <2>2
<1>2. g = [s \in Small(S, k + 1) |-> Sum(gpus, g, s)]
  <2> DEFINE h == [s \in Small(S, k + 1) |-> Sum(gpus, g, s)]
  <2>1. \A s \in Small(S, k + 1) : Sum(gpus, g, s) = Sum(gpus, f, s)
    BY <1>1
  <2> QED
    BY <2>1, Zenon
<1> QED
  BY <1>2, Zenon DEF SumOn

\* There is such a function on all subsets of a finite set.
LEMMA SumExists ==
  ASSUME NEW S, IsFiniteSet(S), NEW gpus
  PROVE  \E f : SumOn(gpus, f, SUBSET S)
<1> DEFINE T == {k \in Nat : \E f : SumOn(gpus, f, Small(S, k))}
<1>1. 0 \in T
  <2> DEFINE f == [s \in Small(S, 0) |-> 0]
  <2>1. ASSUME NEW s \in Small(S, 0)
        PROVE  Sum(gpus, f, s) = 0
    <3>1. IsFiniteSet(s)
      BY FS_Subset DEF Small
    <3>2. s = {}
      BY <3>1, FS_CardinalityType, FS_EmptySet DEF Small
    <3> QED
      BY <3>2 DEF Sum
  <2>2. SumOn(gpus, f, Small(S, 0))
    BY <2>1, Zenon DEF SumOn
  <2> QED
    BY <2>2
<1>2. ASSUME NEW k \in T
      PROVE  k + 1 \in T
  BY SumFurther
<1>3. Cardinality(S) \in T
  <2> HIDE DEF T
  <2>1. Nat \subseteq T
    <3>1. T \in SUBSET Nat
      BY DEF T
    <3> QED
      BY <3>1, <1>1, <1>2, Induction
  <2> QED
    BY <2>1, FS_CardinalityType
<1>4. Small(S, Cardinality(S)) = SUBSET S
  BY FS_Subset DEF Small
<1> QED
  BY <1>3, <1>4

Total(gpus, S) == MapThenSumSet(LAMBDA i : gpus[i].temp, S)

\* What MapThenSumSet gives is the value of a function that satisfies the equation.
LEMMA TotalIs ==
  ASSUME NEW S, IsFiniteSet(S), NEW gpus
  PROVE  \E f : SumOn(gpus, f, SUBSET S) /\ Total(gpus, S) = f[S]
<1> DEFINE f == CHOOSE f : SumOn(gpus, f, SUBSET S)
<1>1. SumOn(gpus, f, SUBSET S)
  BY SumExists
<1>2. Total(gpus, S) = f[S]
  BY Zenon DEF Total, SumOn, Sum, One, MapThenSumSet, MapThenFoldSet
<1> QED
  BY <1>1, <1>2

\* One more term, and the largest and the smallest of the terms with it.
LEMMA OneMore ==
  ASSUME NEW a \in Int, NEW b \in Int, NEW k \in Nat, NEW total \in Int
  PROVE  /\ b * k >= total => a * (k + 1) >= a + total \/ b * (k + 1) >= a + total
         /\ b * k <= total => a * (k + 1) <= a + total \/ b * (k + 1) <= a + total
<1>1. a * (k + 1) = a * k + a /\ b * (k + 1) = b * k + b
  BY SMT
<1>2. a * k \in Int /\ b * k \in Int
  BY SMT
<1>3. a >= b => a * k >= b * k
  BY SMT
<1>4. a <= b => a * k <= b * k
  BY SMT
<1> QED
  BY <1>1, <1>2, <1>3, <1>4, SMT

\* total / Cardinality(s) is between the lowest and the highest reading of s.
Between(gpus, total, s) ==
  /\ total \in Int
  /\ s # {} => /\ \E i \in s : gpus[i].temp * Cardinality(s) >= total
               /\ \E i \in s : gpus[i].temp * Cardinality(s) <= total

\* The sum over a finite set makes such a mean.
LEMMA MeanIsBetween ==
  ASSUME NEW S, IsFiniteSet(S), NEW gpus, \A i \in S : gpus[i].temp \in Int,
         NEW f, SumOn(gpus, f, SUBSET S)
  PROVE  Between(gpus, f[S], S)
<1> DEFINE T == {k \in Nat : \A s \in SUBSET S :
                               Cardinality(s) = k => Between(gpus, f[s], s)}
<1>f. ASSUME NEW s \in SUBSET S
      PROVE  f[s] = Sum(gpus, f, s)
  BY Zenon DEF SumOn
<1>1. 0 \in T
  <2>1. ASSUME NEW s \in SUBSET S, Cardinality(s) = 0
        PROVE  Between(gpus, f[s], s)
    <3>1. s = {}
      BY <2>1, FS_Subset, FS_EmptySet
    <3>2. f[s] = 0
      BY <3>1, <1>f, Zenon DEF Sum
    <3> QED
      BY <3>1, <3>2 DEF Between
  <2> QED
    BY <2>1
<1>2. ASSUME NEW k \in T
      PROVE  k + 1 \in T
  <2> k \in Nat
    OBVIOUS
  <2>1. ASSUME NEW s \in SUBSET S, Cardinality(s) = k + 1
        PROVE  Between(gpus, f[s], s)
    <3> DEFINE x == One(s)
               t == s \ {x}
               a == gpus[x].temp
    <3>0. Cardinality(s) # 0
      BY <2>1
    <3>1. s # {}
      BY <3>0, FS_EmptySet, Zenon
    <3>2. x \in s /\ t \in SUBSET S /\ Cardinality(t) = k
      BY <2>1, <3>1, OneLess
    <3>3. Between(gpus, f[t], t)
      BY <3>2
    <3>4. f[s] = a + f[t]
      BY <3>1, <1>f, Zenon DEF Sum
    <3>5. a \in Int
      BY <3>2
    <3>6. f[t] \in Int
      BY <3>3 DEF Between
    <3>7. CASE t = {}
      <4>1. f[t] = 0
        BY <3>7, <3>2, <1>f, Zenon DEF Sum
      <4>2. k = 0
        BY <3>7, <3>2, FS_EmptySet
      <4>3. a * Cardinality(s) = f[s]
        BY <4>1, <4>2, <2>1, <3>4, <3>5
      <4>4. f[s] \in Int
        BY <3>4, <3>5, <3>6
      <4> QED
        BY <4>3, <4>4, <3>2 DEF Between
    <3>8. CASE t # {}
      <4>1. PICK i \in t : gpus[i].temp * k >= f[t]
        BY <3>8, <3>3, <3>2 DEF Between
      <4>2. PICK j \in t : gpus[j].temp * k <= f[t]
        BY <3>8, <3>3, <3>2 DEF Between
      <4>3. i \in s /\ j \in s /\ gpus[i].temp \in Int /\ gpus[j].temp \in Int
        BY <3>2
      <4> HIDE DEF a, t
      <4>4. a * (k + 1) >= a + f[t] \/ gpus[i].temp * (k + 1) >= a + f[t]
        BY <4>1, <4>3, <3>5, <3>6, OneMore
      <4>5. a * (k + 1) <= a + f[t] \/ gpus[j].temp * (k + 1) <= a + f[t]
        BY <4>2, <4>3, <3>5, <3>6, OneMore
      <4>6. f[s] \in Int
        BY <3>4, <3>5, <3>6
      <4>7. \E m \in s : gpus[m].temp * Cardinality(s) >= f[s]
        BY <4>4, <4>3, <3>2, <3>4, <2>1 DEF a
      <4>8. \E m \in s : gpus[m].temp * Cardinality(s) <= f[s]
        BY <4>5, <4>3, <3>2, <3>4, <2>1 DEF a
      <4> QED
        BY <4>6, <4>7, <4>8, Zenon DEF Between
    <3> QED
      BY <3>7, <3>8
  <2> QED
    BY <2>1
<1>3. Cardinality(S) \in T
  <2> HIDE DEF T
  <2>1. Nat \subseteq T
    <3>1. T \in SUBSET Nat
      BY DEF T
    <3> QED
      BY <3>1, <1>1, <1>2, Induction
  <2> QED
    BY <2>1, FS_CardinalityType
<1> QED
  BY <1>3

-----------------------------------------------------------------------------
(* Messages and what is judged. *)

\* Of lines that the formatter does not fail on, it shows those the parser reads.
LEMMA SameGpus ==
  ASSUME NEW raw \in Raws, ~ReportRaises(raw)
  PROVE  ShownGpus(raw.gpu) = DOMAIN ParseNvidiaSmi(raw.gpu)
<1>1. raw.gpu \in Seq(Seq(Field))
  BY DashboardAssumption DEF Raw
<1>2. ASSUME NEW i \in DOMAIN raw.gpu
      PROVE  Len(raw.gpu[i]) \in Nat /\ Len(raw.gpu[i]) # 8
  <2>1. raw.gpu[i] \in Seq(Field)
    BY <1>1
  <2> QED
    BY <2>1 DEF ReportRaises, GpuLineRaises
<1>3. ASSUME NEW i \in DOMAIN raw.gpu
      PROVE  Len(raw.gpu[i]) >= 8 <=> Len(raw.gpu[i]) >= 9
  <2> DEFINE l == Len(raw.gpu[i])
  <2>1. l \in Nat /\ l # 8
    BY <1>2
  <2> HIDE DEF l
  <2>2. l >= 8 <=> l >= 9
    BY <2>1
  <2> QED
    BY <2>2 DEF l
<1> QED
  BY <1>3, Zenon DEF ShownGpus, ParseNvidiaSmi

\* The disk usage that the parser reads is in a line that is shown.
LEMMA SameDisk ==
  ASSUME NEW raw \in Raws, ParseDf(raw.df) # None
  PROVE  \E i \in ShownDisks(raw.df) : raw.df[i][5].value = ParseDf(raw.df)
<1> DEFINE line == raw.df[2]
           P == Percentages(line)
<1>1. raw.df \in Seq(Seq(DfWord))
  BY DashboardAssumption DEF Raw
<1>2. Len(raw.df) >= 2 /\ P # {}
  BY <1>1 DEF ParseDf
<1>3. 5 \in P /\ \A i \in P : 5 <= i
  BY <1>2, DfColumns
<1>4. 2 \in DOMAIN raw.df /\ line \in Seq(DfWord)
  BY <1>1, <1>2
<1>5. P \subseteq Nat
  BY <1>4 DEF Percentages
<1>6. Min(P) = 5
  <2> HIDE DEF P
  <2>1. \A x \in P : (\A y \in P : x <= y) <=> x = 5
    BY <1>3, <1>5
  <2> QED
    BY <1>3, <2>1 DEF Min
<1>7. ParseDf(raw.df) = line[5].value
  BY <1>1, <1>2, <1>6 DEF ParseDf
<1>8. Len(line) >= 5 /\ line[5].percent
  BY <1>3, <1>4 DEF Percentages
<1>9. 2 \in ShownDisks(raw.df)
  BY <1>4, <1>8 DEF ShownDisks
<1> QED
  BY <1>7, <1>9

\* With a reading for every GPU the average lies between the lowest and the highest.
LEMMA AverageAllowed ==
  ASSUME NEW raw \in Raws, NEW gpus, gpus = ParseNvidiaSmi(raw.gpu), DOMAIN gpus # {},
         \A i \in DOMAIN gpus : gpus[i].temp # None
  PROVE  /\ \E i \in DOMAIN gpus : gpus[i].temp * Summary(gpus).over >= Summary(gpus).total
         /\ \E i \in DOMAIN gpus : gpus[i].temp * Summary(gpus).over <= Summary(gpus).total
<1> DEFINE S == DOMAIN gpus
<1>1. raw.gpu \in Seq(Seq(Field))
  BY DashboardAssumption DEF Raw
<1>2. S = {j \in DOMAIN raw.gpu : Len(raw.gpu[j]) >= 9}
  BY Zenon DEF ParseNvidiaSmi
<1>3. IsFiniteSet(S)
  <2>1. S \subseteq 1 .. Len(raw.gpu) /\ Len(raw.gpu) \in Nat
    BY <1>1, <1>2
  <2> HIDE DEF S
  <2>2. IsFiniteSet(1 .. Len(raw.gpu))
    BY <2>1, FS_Interval
  <2> QED
    BY <2>1, <2>2, FS_Subset
<1>4. ASSUME NEW i \in S
      PROVE  gpus[i].temp \in Int
  <2>1. raw.gpu[i] \in Seq(Field) /\ Len(raw.gpu[i]) >= 9
    BY <1>1, <1>2
  <2>2. raw.gpu[i][3] \in Field
    BY <2>1
  <2>3. gpus[i].temp = raw.gpu[i][3]
    BY <1>2 DEF ParseNvidiaSmi
  <2> QED
    BY <2>2, <2>3 DEF Field
<1>5. {i \in S : gpus[i].temp # None} = S
  OBVIOUS
<1>6. PICK f : SumOn(gpus, f, SUBSET S) /\ Total(gpus, S) = f[S]
  BY <1>3, TotalIs
<1>7. Cardinality(S) # 0
  BY <1>3, FS_EmptySet
<1>8. Summary(gpus).total = f[S] /\ Summary(gpus).over = Cardinality(S)
  BY <1>5, <1>6, <1>7 DEF Summary, Total
<1>9. Between(gpus, f[S], S)
  BY <1>3, <1>4, <1>6, MeanIsBetween
<1> QED
  BY <1>8, <1>9 DEF Between

-----------------------------------------------------------------------------
(* The theorems. *)

\* Requests, statuses, queued reports and the receiver's messages keep their types,
\* whatever the requests, the cycle and the crashes do.
THEOREM TypesKept == Spec => []TypeOK
<1>1. Inv => TypeOK
  BY TypesFollow, Zenon DEF Inv
<1> QED
  BY <1>1, InvHolds, PTL

\* What POST /api/report answers is true: a sent report has arrived, a queued one
\* is committed in the table or has arrived, and one that was refused, or failed
\* before its push, has left nothing, not even in an open transaction.
THEOREM TheAnswerIsTrue == Spec => []AnswersTellTheTruth
<1>1. Inv => AnswersTellTheTruth
  BY InvGives
<1> QED
  BY <1>1, InvHolds, PTL

\* A keyword alone is about all nodes, a keyword and a name that holds no keyword
\* before it about that node.
THEOREM RobotUnderstands == Spec => []PlainFormsUnderstood
<1>1. Inv => PlainFormsUnderstood
  BY InvGives
<1> QED
  BY <1>1, InvHolds, PTL

\* Whatever is queued can be formatted by the notifier that tried it first.
THEOREM NothingPoisonsTheQueue == Spec => []QueuedCanBeFormatted
<1>1. ASSUME Inv
      PROVE  QueuedCanBeFormatted
  <2>1. ASSUME NEW copy \in queue \cup saved, copy.by = notifier
        PROVE  ~FormatRaises(copy.payload)
    <3>1. CouldBeShown(copy.payload, notifier)
      BY <1>1, <2>1, Zenon DEF Inv, CopiesAccounted
    <3> QED
      BY <3>1, FormatIs
  <2> QED
    BY <2>1, Zenon DEF QueuedCanBeFormatted
<1> QED
  BY <1>1, InvHolds, PTL

\* Whatever a reachable node's commands answered, a message that can be formatted
\* shows the GPUs and the disk usage that are judged, and with a reading for every
\* GPU the average of the summary lies between the lowest and the highest.
THEOREM ReadersAgree == Spec => []MessageShowsWhatIsJudged
<1>1. ASSUME TypeOK
      PROVE  MessageShowsWhatIsJudged
  <2>1. ASSUME NEW n \in Recorded, status[n].reachable
        PROVE  status[n].raw \in Raws
    <3>1. status[n] \in Status /\ n \in Nodes
      BY <1>1, <2>1 DEF TypeOK, Recorded, Unknown
    <3>2. ~Unreachable.reachable
      BY DEF Unreachable
    <3>3. \A raw : Reachable(raw).raw = raw
      BY DEF Reachable
    <3> QED
      BY <3>1, <3>2, <3>3, <2>1, Zenon DEF Status
  <2> QED
    BY <2>1, SameGpus, SameDisk, AverageAllowed DEF MessageShowsWhatIsJudged
<1> QED
  BY <1>1, TypesKept, PTL

=============================================================================
