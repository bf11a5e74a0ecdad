------------------------------ MODULE MCScreens ------------------------------
(***************************************************************************)
(* Small instances of Screens for TLC.                                     *)
(***************************************************************************)
EXTENDS Screens, TLC

\* Forms that leave out the home, carry a schedule that cannot be read, with
\* a home and without, or fill in what the others leave.
Filled == [name |-> "scribe", home |-> "hall", mention |-> TRUE, topic |-> None,
           schedule |-> None, subject |-> None, told |-> None, model |-> None,
           tools |-> {}, most |-> 8, per |-> "10m"]
Served == [Filled EXCEPT !.name = None, !.home = None]
SomeForms ==
    { Served,
      [Filled EXCEPT !.home = None, !.tools = {"files"}],
      [Filled EXCEPT !.schedule = "unreadable", !.home = None],
      [Filled EXCEPT !.schedule = "unreadable"],
      [Filled EXCEPT !.subject = "alarms", !.mention = FALSE, !.most = 0,
                     !.per = None, !.told = "how", !.model = "brain"] }

\* Bound: a house of two people is first that of the one who administers it.
SmallInit == Init /\ crew = {"p1"}

\* Bound: others take one credential away, and none once another is gone.
OthersTakeOne == minting' = minting /\ gone' # gone => gone = {}

SmallSpec == SmallInit /\ [][Next /\ OthersTakeOne]_vars

\* The acts on the agents are alike but for their names.
CallsAlike == Permutations(AgentCalls)
=============================================================================
