------------------------------ MODULE MCDashboard ------------------------------
(* An instance of Dashboard for TLC: outputs of nodes and texts of the group.  *)
EXTENDS Dashboard, TLC

CONSTANTS n1, n2

\* The second name holds the keyword hi, as in machine.
MCNameOf == n1 :> <<"gpu-01">> @@ n2 :> <<"mac", "hi", "ne-02">>

Line(fields, temp) == [i \in 1 .. fields |-> IF i = 3 THEN temp ELSE 7]

Word(value) == [percent |-> value # None, value |-> value]

Heading == [i \in 1 .. 7 |-> [percent |-> i = 5, value |-> None]]

Disk(value) == <<Heading, [i \in 1 .. 6 |-> Word(IF i = 5 THEN value ELSE None)]>>

\* Two GPUs, one of which may have no reading; a driver that answers with one
\* field too few, or with a message; a df that broke its line.
MCRaws ==
  {[gpu |-> <<Line(9, 60), Line(9, t)>>, df |-> Disk(85)] : t \in {50, None}}
    \cup {[gpu |-> <<Line(8, 60), Line(9, 60)>>, df |-> Disk(85)],
          [gpu |-> <<Line(1, None)>>, df |-> <<Heading, <<Word(None)>>, Tail(Disk(85)[2])>>]}

Bot == <<"@", "bot">>
ReportBot == <<"@", "huibao", "bot">>

MCContents ==
  {<<Bot>>, <<<<"lunch">>>>, <<Bot, <<"lunch">>>>,
   <<Bot, <<"huibao">>>>,
   <<Bot, <<"xunjian", "baogao">>>>,
   <<Bot, <<"hello">>, MCNameOf[n1]>>,
   <<Bot, <<"hello">>, MCNameOf[n2]>>,
   <<Bot, <<"status">>, <<"gpu-03">>>>,
   <<ReportBot, <<"zhuangtai">>, MCNameOf[n1]>>}

\* The same keyword before either name.
MCQuestions == {<<Bot, <<"hello">>, MCNameOf[n]>> : n \in {n1, n2}}

=============================================================================
