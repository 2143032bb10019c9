----------------------------- MODULE TurnLedger -----------------------------
(***************************************************************************)
(* What the Rich Chat queue promises of each message a client sends, with   *)
(* no queue, task or agent: a message waits, is perhaps withdrawn to be     *)
(* edited and put back, and is then either withdrawn for good or handed     *)
(* over, once.  A message being edited or withdrawn never reaches the agent.*)
(***************************************************************************)
EXTENDS Naturals

CONSTANT Messages

VARIABLES
    status,     \* "new", "waiting", "editing", "withdrawn" or "taken"
    given       \* how often the agent was given the message

LedgerInit ==
    /\ status = [m \in Messages |-> "new"]
    /\ given = [m \in Messages |-> 0]

Move(m, from, to) ==
    /\ status[m] = from
    /\ status' = [status EXCEPT ![m] = to]

Accept(m)   == Move(m, "new", "waiting") /\ UNCHANGED given
Hold(m)     == Move(m, "waiting", "editing") /\ UNCHANGED given
PutBack(m)  == Move(m, "editing", "waiting") /\ UNCHANGED given
Withdraw(m) ==
    /\ Move(m, "waiting", "withdrawn") \/ Move(m, "editing", "withdrawn")
    /\ UNCHANGED given

\* Taken for a turn of its own ...
Take(m) == Move(m, "waiting", "taken") /\ UNCHANGED given

\* ... whose prompt the agent is then given, unless the turn is stopped first;
\* or given at once, by steering it into the turn that runs.
Give(m) ==
    /\ status[m] \in {"waiting", "taken"}
    /\ given[m] = 0
    /\ status' = [status EXCEPT ![m] = "taken"]
    /\ given' = [given EXCEPT ![m] = 1]

LedgerNext ==
    \E m \in Messages :
        \/ Accept(m) \/ Hold(m) \/ PutBack(m) \/ Withdraw(m)
        \/ Take(m) \/ Give(m)

LedgerSpec == LedgerInit /\ [][LedgerNext]_<<status, given>>
=============================================================================
