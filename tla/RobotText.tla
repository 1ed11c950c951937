------------------------------- MODULE RobotText -------------------------------
(***************************************************************************)
(* How wps_callback of inspector/dashboard.py reads what a member of the      *)
(* group wrote to the robot: whether it asks for a report, and of which node. *)
(*                                                                           *)
(* A text is the sequence of its words (Python's split), a word the sequence  *)
(* of its pieces; a keyword, the sign @, and what stands between them are     *)
(* pieces, so that a keyword inside a longer word can be told.  No keyword    *)
(* has a blank in it, and upper and lower case are the same to the code.  The *)
(* robot is named in the first word of a message that is addressed to it.     *)
(***************************************************************************)
EXTENDS Integers, SequencesExt

\* The keywords in the order of the list; the Chinese ones are transcribed.
Keywords == <<"huibao", "zhuangtai", "xunjian", "baogao", "report", "status",
              "nihao", "hi", "hello">>

Holds(text, piece) == \E w \in DOMAIN text : Contains(text[w], piece)

StartsWithAt(content) == content # <<>> /\ Head(Head(content)) = "@"

-----------------------------------------------------------------------------
(* Variants with a bug, each put in the place of its original by a mutation   *)
(* run.                                                                       *)

AfterRobotNameKept(content) == content

-----------------------------------------------------------------------------

\* With an @ anywhere in the text its first word goes, if it is not the only one.
AfterRobotName(content) ==
  IF Holds(content, "@") /\ Len(content) > 1 THEN Tail(content) ELSE content

\* The first keyword, in the order of the list, that occurs anywhere; 0 if none.
KeywordIn(text) == SelectInSeq(Keywords, LAMBDA kw : Holds(text, kw))

\* The words after the first occurrence of the keyword, blanks stripped.
After(text, kw) ==
  LET w    == SelectInSeq(text, LAMBDA word : Contains(word, kw))
      at   == SelectInSeq(text[w], LAMBDA piece : piece = kw)
      rest == SubSeq(text[w], at + 1, Len(text[w]))
  IN (IF rest = <<>> THEN <<>> ELSE <<rest>>) \o SubSeq(text, w + 1, Len(text))

\* should_report
AsksForReport(content) ==
  KeywordIn(AfterRobotName(content)) # 0 \/ StartsWithAt(content)

\* target_node, as words; no words stand for None, that is for all nodes.
TargetOf(content) ==
  LET text == AfterRobotName(content)
      k    == KeywordIn(text)
  IN IF k = 0 THEN <<>> ELSE After(text, Keywords[k])

-----------------------------------------------------------------------------
(* The forms the documentation gives: the robot's name, a keyword, and in the *)
(* code's own example the name of a node after it.                            *)

RobotNamed(word) == word # <<>> /\ Head(word) = "@"

AsksForAll(content) ==
  /\ Len(content) = 2
  /\ RobotNamed(content[1])
  /\ \E k \in DOMAIN Keywords : content[2] = <<Keywords[k]>>

AsksForNode(content, name) ==
  /\ Len(content) = 3
  /\ AsksForAll(SubSeq(content, 1, 2))
  /\ content[3] = name

\* The name of the node holds no keyword that stands in the list before the one
\* that was written.
Unmistakable(content) ==
  \A j, k \in DOMAIN Keywords :
    content[2] = <<Keywords[k]>> /\ Contains(content[3], Keywords[j]) => k <= j

=============================================================================
