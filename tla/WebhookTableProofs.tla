--------------------------- MODULE WebhookTableProofs ---------------------------
(* Facts about the operators on the table of pending webhooks, for all tables,  *)
(* and about the texts its times are kept as: the order of the texts of two     *)
(* times is their order in time, for all times.                                 *)
EXTENDS WebhookTable, Timestamps, FiniteSetTheorems, SequenceTheorems, TLAPS

\* The row a message has after its first push failed, or after it left.
LEMMA NewRows ==
  /\ NoEntry \in Entry
  /\ [status |-> "pending", attempts |-> 0, wait |-> EnqueueDelay] \in Entry
BY TableAssumption DEF NoEntry, Entry

\* A row whose status, attempts or wait is written stays a row.
LEMMA WrittenRow ==
  ASSUME NEW e \in Entry
  PROVE  /\ [e EXCEPT !.status = "dead"] \in Entry
         /\ \A a \in Nat, w \in Int : [e EXCEPT !.attempts = a, !.wait = w] \in Entry
         /\ \A w \in Int : [e EXCEPT !.wait = w] \in Entry
BY DEF Entry

\* What enqueue_webhook and delete_webhook leave in the table.
LEMMA EnqueueEffect ==
  ASSUME NEW table \in [Ids -> Entry], NEW m \in Ids
  PROVE  /\ EnqueueWebhook(table, m) \in [Ids -> Entry]
         /\ EnqueueWebhook(table, m)[m].status = "pending"
         /\ EnqueueWebhook(table, m)[m].attempts = 0
         /\ \A n \in Ids \ {m} : EnqueueWebhook(table, m)[n] = table[n]
BY NewRows DEF EnqueueWebhook

\* delete_webhook takes one row away.
LEMMA DeleteEffect ==
  ASSUME NEW table \in [Ids -> Entry], NEW m \in Ids
  PROVE  /\ DeleteWebhook(table, m) \in [Ids -> Entry]
         /\ DeleteWebhook(table, m)[m].status = "absent"
         /\ DeleteWebhook(table, m)[m].attempts = 0
         /\ \A n \in Ids \ {m} : DeleteWebhook(table, m)[n] = table[n]
<1>1. NoEntry.status = "absent" /\ NoEntry.attempts = 0
  BY DEF NoEntry
<1> QED
  BY <1>1, NewRows DEF DeleteWebhook

\* A row that is in the table becomes a dead letter after its last retry and
\* waits with one attempt more before; other rows are left alone.
LEMMA FailedRetryEffect ==
  ASSUME NEW table \in [Ids -> Entry], NEW m \in Ids, NEW attempts \in Nat,
         NEW maxRetries \in Nat, InTable(table, m),
         NEW after, after = AfterFailedRetry(table, m, attempts, maxRetries)
  PROVE  /\ after \in [Ids -> Entry]
         /\ attempts + 1 >= maxRetries =>
              after[m].status = "dead" /\ after[m].attempts = table[m].attempts
         /\ attempts + 1 < maxRetries =>
              after[m].status = table[m].status /\ after[m].attempts = attempts + 1
         /\ \A n \in Ids \ {m} : after[n] = table[n]
<1>1. RetryInterval \in Int /\ attempts + 1 \in Nat
  BY TableAssumption
<1>2. table[m] \in Entry
  OBVIOUS
<1>3. CASE attempts + 1 >= maxRetries
  <2> DEFINE row == [table[m] EXCEPT !.status = "dead"]
  <2>1. after = [table EXCEPT ![m] = row]
    BY <1>3 DEF AfterFailedRetry, MarkWebhookDead
  <2>2. row \in Entry
    BY <1>2, WrittenRow
  <2>3. row.status = "dead" /\ row.attempts = table[m].attempts
    BY <1>2 DEF Entry
  <2> HIDE DEF row
  <2> QED
    BY <1>1, <1>3, <2>1, <2>2, <2>3
<1>4. CASE attempts + 1 < maxRetries
  <2> DEFINE row == [table[m] EXCEPT !.attempts = attempts + 1, !.wait = RetryInterval]
  <2>1. after = [table EXCEPT ![m].attempts = attempts + 1, ![m].wait = RetryInterval]
    BY <1>1, <1>4 DEF AfterFailedRetry, UpdateWebhookRetry
  <2>2. after = [table EXCEPT ![m] = row]
    BY <2>1, Zenon
  <2>3. row \in Entry
    BY <1>1, <1>2, WrittenRow
  <2>4. row.status = table[m].status /\ row.attempts = attempts + 1
    BY <1>2 DEF Entry
  <2> HIDE DEF row
  <2> QED
    BY <1>1, <1>4, <2>2, <2>3, <2>4
<1> QED
  BY <1>1, <1>3, <1>4

\* Time changes only how long the rows wait.
LEMMA OlderEffect ==
  ASSUME NEW table \in [Ids -> Entry]
  PROVE  /\ Older(table) \in [Ids -> Entry]
         /\ \A m \in Ids : /\ Older(table)[m].status = table[m].status
                           /\ Older(table)[m].attempts = table[m].attempts
<1> DEFINE NotBefore(m) == {n \in Due(table) : table[n].wait >= table[m].wait}
<1>1. ASSUME NEW m \in Ids
      PROVE  /\ Older(table)[m] \in Entry
             /\ Older(table)[m].status = table[m].status
             /\ Older(table)[m].attempts = table[m].attempts
  <2>1. NotBefore(m) \subseteq Ids
    BY DEF Due
  <2>2. Cardinality(NotBefore(m)) \in Nat
    BY <2>1, TableAssumption, FS_Subset, FS_CardinalityType
  <2>3. table[m] \in Entry /\ table[m].wait \in Int
    BY DEF Entry
  <2> HIDE DEF NotBefore
  <2>4. -Cardinality(NotBefore(m)) \in Int /\ table[m].wait - 1 \in Int
    BY <2>2, <2>3
  <2>5. \A w \in Int : /\ [table[m] EXCEPT !.wait = w] \in Entry
                       /\ [table[m] EXCEPT !.wait = w].status = table[m].status
                       /\ [table[m] EXCEPT !.wait = w].attempts = table[m].attempts
    BY <2>3 DEF Entry
  <2>6. Older(table)[m] =
          CASE ~IsPending(table, m) -> table[m]
            [] m \in Due(table)     -> [table[m] EXCEPT !.wait = -Cardinality(NotBefore(m))]
            [] OTHER                -> [table[m] EXCEPT !.wait = @ - 1]
    BY DEF Older, NotBefore
  <2>7. CASE ~IsPending(table, m)
    <3>1. m \notin Due(table)
      BY <2>7 DEF Due
    <3> QED
      BY <2>3, <2>6, <2>7, <3>1
  <2>8. CASE m \in Due(table)
    <3>1. IsPending(table, m)
      BY <2>8 DEF Due
    <3>2. Older(table)[m] = [table[m] EXCEPT !.wait = -Cardinality(NotBefore(m))]
      BY <2>6, <2>8, <3>1
    <3> QED
      BY <2>4, <2>5, <3>2
  <2>9. CASE IsPending(table, m) /\ m \notin Due(table)
    <3>1. Older(table)[m] = [table[m] EXCEPT !.wait = table[m].wait - 1]
      BY <2>6, <2>9
    <3> QED
      BY <2>4, <2>5, <3>1
  <2> QED
    BY <2>7, <2>8, <2>9
<1>2. Older(table) = [m \in Ids |-> Older(table)[m]]
  BY DEF Older
<1> QED
  BY <1>1, <1>2

\* What dequeue_pending_webhooks hands out: pending rows, each once, with the
\* attempts they have.
LEMMA DequeueEffect ==
  ASSUME NEW table \in [Ids -> Entry], NEW todo \in DequeuePendingWebhooks(table)
  PROVE  /\ todo \in Seq([id : Ids, attempts : Nat])
         /\ \A i \in DOMAIN todo : /\ IsPending(table, todo[i].id)
                                   /\ table[todo[i].id].attempts = todo[i].attempts
         /\ \A i, j \in DOMAIN todo : todo[i].id = todo[j].id => i = j
<1> DEFINE due  == Due(table)
           size == IF Cardinality(due) < DequeueLimit THEN Cardinality(due) ELSE DequeueLimit
<1>1. due \subseteq Ids /\ \A m \in due : IsPending(table, m)
  BY DEF Due
<1>2. Cardinality(due) \in Nat
  BY <1>1, TableAssumption, FS_Subset, FS_CardinalityType
<1>3. size \in Nat
  BY <1>2, TableAssumption
<1>4. PICK s \in [1 .. size -> due] :
        /\ todo = [i \in 1 .. size |-> [id |-> s[i], attempts |-> table[s[i]].attempts]]
        /\ \A i, k \in 1 .. size : i < k => s[i] # s[k]
  BY DEF DequeuePendingWebhooks
<1> DEFINE Tickets == [id : Ids, attempts : Nat]
<1> HIDE DEF due, size
<1>5. ASSUME NEW i \in 1 .. size
      PROVE  /\ [id |-> s[i], attempts |-> table[s[i]].attempts] \in Tickets
             /\ IsPending(table, s[i])
  <2>1. s[i] \in due /\ s[i] \in Ids /\ table[s[i]] \in Entry
    BY <1>1
  <2>2. table[s[i]].attempts \in Nat
    BY <2>1 DEF Entry
  <2> QED
    BY <1>1, <2>1, <2>2
<1>6. ASSUME NEW i \in 1 .. size
      PROVE  todo[i].id = s[i] /\ todo[i].attempts = table[s[i]].attempts
  BY <1>4
<1>7. ASSUME NEW i \in 1 .. size, NEW k \in 1 .. size, s[i] = s[k]
      PROVE  i = k
  BY <1>3, <1>4, <1>7
<1> HIDE DEF Tickets
<1>8. todo \in [1 .. size -> Tickets]
  BY <1>4, <1>5
<1>9. todo \in Seq(Tickets) /\ DOMAIN todo = 1 .. size
  BY <1>3, <1>8, SeqDef
<1> QED
  BY <1>5, <1>6, <1>7, <1>9 DEF Tickets

-----------------------------------------------------------------------------
(* The texts of times. *)


\* s is not later than t.
NotAfter(s, t) ==
  s.second < t.second \/ (s.second = t.second /\ s.micro <= t.micro)

\* A text is at most itself.
LEMMA SameText ==
  ASSUME NEW a \in Seq(Int)
  PROVE  TextAtMost(a, a)
BY DEF TextAtMost

\* Otherwise the first place where two texts differ decides.
LEMMA FirstDifference ==
  ASSUME NEW a \in Seq(Int), NEW b \in Seq(Int), NEW k \in 1 .. Len(a),
         k <= Len(b), a[k] # b[k], \A j \in 1 .. k - 1 : a[j] = b[j]
  PROVE  TextAtMost(a, b) <=> a[k] < b[k]
<1>1. /\ Len(a) \in Nat /\ Len(b) \in Nat /\ a[k] \in Int /\ b[k] \in Int
      /\ \A i \in 1 .. Len(a) : a[i] \in Int
  OBVIOUS
<1>2. ASSUME a[k] < b[k] PROVE TextAtMost(a, b)
  BY <1>2 DEF TextAtMost
<1>3. ASSUME TextAtMost(a, b), ~(a[k] < b[k]) PROVE FALSE
  <2>1. PICK i \in 1 .. Len(a) : /\ i <= Len(b) /\ a[i] < b[i]
                                 /\ \A j \in 1 .. i - 1 : a[j] = b[j]
    BY <1>3 DEF TextAtMost
  <2>2. i # k
    BY <1>3, <2>1
  <2>3. CASE i < k
    <3>1. i \in 1 .. k - 1
      BY <2>3
    <3>2. a[i] = b[i]
      BY <3>1
    <3>3. a[i] \in Int
      BY <1>1
    <3> QED
      BY <2>1, <3>2, <3>3
  <2>4. CASE k < i
    <3>1. k \in 1 .. i - 1
      BY <2>4
    <3> QED
      BY <2>1, <3>1
  <2> QED
    BY <2>2, <2>3, <2>4
<1> QED
  BY <1>2, <1>3

\* A text without a fraction is shorter, and its sign comes before the point.
LEMMA TextForms ==
  ASSUME NEW t \in Time
  PROVE  /\ t.second \in Int /\ t.micro \in Nat
         /\ Isoformat(t) \in Seq(Int)
         /\ Isoformat(t)[1] = t.second
         /\ t.micro = 0 => Len(Isoformat(t)) = 2 /\ Isoformat(t)[2] = 43
         /\ t.micro # 0 => /\ Len(Isoformat(t)) = 4
                           /\ Isoformat(t)[2] = 46 /\ Isoformat(t)[3] = t.micro
BY DEF Time, Isoformat, Plus, Point

\* A row is due exactly when its time has come, whatever fractions the texts of
\* the two times have (dequeue_pending_webhooks compares next_retry_at as text).
THEOREM DueInTime ==
  ASSUME NEW s \in Time, NEW t \in Time
  PROVE  IsDue(s, t) <=> NotAfter(s, t)
<1> DEFINE a == Isoformat(s)
           b == Isoformat(t)
<1>1. IsDue(s, t) <=> TextAtMost(a, b)
  BY DEF IsDue
<1>2. /\ s.second \in Int /\ s.micro \in Nat /\ a \in Seq(Int) /\ a[1] = s.second
      /\ s.micro = 0 => Len(a) = 2 /\ a[2] = 43
      /\ s.micro # 0 => Len(a) = 4 /\ a[2] = 46 /\ a[3] = s.micro
  BY TextForms
<1>3. /\ t.second \in Int /\ t.micro \in Nat /\ b \in Seq(Int) /\ b[1] = t.second
      /\ t.micro = 0 => Len(b) = 2 /\ b[2] = 43
      /\ t.micro # 0 => Len(b) = 4 /\ b[2] = 46 /\ b[3] = t.micro
  BY TextForms
<1>4. s.second = t.second /\ s.micro = t.micro => a = b
  BY DEF Isoformat
<1> HIDE DEF a, b
<1>5. CASE s.second # t.second
  <2>1. 1 \in 1 .. Len(a) /\ 1 <= Len(b) /\ \A j \in 1 .. 1 - 1 : a[j] = b[j]
    BY <1>2, <1>3
  <2>2. TextAtMost(a, b) <=> a[1] < b[1]
    BY <1>2, <1>3, <1>5, <2>1, FirstDifference
  <2> QED
    BY <1>1, <1>2, <1>3, <1>5, <2>2 DEF NotAfter
<1>6. CASE s.second = t.second /\ s.micro = t.micro
  BY <1>1, <1>2, <1>3, <1>4, <1>6, SameText DEF NotAfter
<1>7. CASE s.second = t.second /\ s.micro # t.micro /\ (s.micro = 0 \/ t.micro = 0)
  <2>1. 2 \in 1 .. Len(a) /\ 2 <= Len(b) /\ \A j \in 1 .. 2 - 1 : a[j] = b[j]
    BY <1>2, <1>3, <1>7
  <2>2. a[2] # b[2]
    BY <1>2, <1>3, <1>7
  <2>3. TextAtMost(a, b) <=> a[2] < b[2]
    BY <1>2, <1>3, <2>1, <2>2, FirstDifference
  <2> QED
    BY <1>1, <1>2, <1>3, <1>7, <2>3 DEF NotAfter
<1>8. CASE s.second = t.second /\ s.micro # t.micro /\ s.micro # 0 /\ t.micro # 0
  <2>1. 3 \in 1 .. Len(a) /\ 3 <= Len(b) /\ \A j \in 1 .. 3 - 1 : a[j] = b[j]
    BY <1>2, <1>3, <1>8
  <2>2. TextAtMost(a, b) <=> a[3] < b[3]
    BY <1>2, <1>3, <1>8, <2>1, FirstDifference
  <2> QED
    BY <1>1, <1>2, <1>3, <1>8, <2>2 DEF NotAfter
<1> QED
  BY <1>5, <1>6, <1>7, <1>8

\* The clean-up deletes exactly what is older than the cutoff.
THEOREM BeforeInTime ==
  ASSUME NEW s \in Time, NEW t \in Time
  PROVE  IsBefore(s, t) <=> ~NotAfter(t, s)
BY DueInTime DEF IsDue, IsBefore

\* The time of a number of microseconds, and back.
LEMMA AtIs ==
  ASSUME NEW x \in Int
  PROVE  /\ At(x) \in Time
         /\ x = At(x).second * Million + At(x).micro
<1>1. x \div Million \in Int
  BY SMT DEF Million
<1>2. (x % Million) \in Nat /\ (x % Million) < Million
  BY SMT DEF Million
<1>3. x = (x \div Million) * Million + (x % Million)
  BY SMT DEF Million
<1>4. At(x).second = x \div Million /\ At(x).micro = (x % Million)
  BY Zenon DEF At
<1>5. At(x) \in Time
  BY <1>1, <1>2, Zenon DEF At, Time
<1> QED
  BY <1>3, <1>4, <1>5, Zenon

\* The order of two times is that of their microseconds.
LEMMA AtInOrder ==
  ASSUME NEW x \in Int, NEW y \in Int
  PROVE  NotAfter(At(x), At(y)) <=> x <= y
<1> DEFINE s == At(x).second
           a == At(x).micro
           t == At(y).second
           b == At(y).micro
<1>1. /\ s \in Int /\ a \in Nat /\ a < Million
      /\ t \in Int /\ b \in Nat /\ b < Million
  BY AtIs, Zenon DEF Time
<1>2. x = s * Million + a /\ y = t * Million + b
  BY AtIs, Zenon
<1>3. NotAfter(At(x), At(y)) <=> s < t \/ (s = t /\ a <= b)
  BY Zenon DEF NotAfter
<1> HIDE DEF s, a, t, b
<1>4. s < t \/ (s = t /\ a <= b) <=> s * Million + a <= t * Million + b
  BY <1>1, SMT DEF Million
<1> QED
  BY <1>2, <1>3, <1>4, Zenon

=============================================================================
