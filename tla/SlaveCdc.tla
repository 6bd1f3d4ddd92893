------------------------------ MODULE SlaveCdc ------------------------------
(***************************************************************************)
(* `emcli config Ethernet:/dev/... ...`: RunSlaveConfig over the USB CDC   *)
(* port of a board (src/cli/slave_config.cc). A command is one line, an    *)
(* answer is one line, and nothing but their order says which answer is    *)
(* to which command. The port is flushed once, when it is opened; a        *)
(* command is given 3 s.                                                   *)
(*                                                                         *)
(* The board is external: it answers every line in order, in its own time, *)
(* and may refuse any command. OK to REBOOT says that it was accepted. The *)
(* user may run emcli again; unless AnswersLate, the board has answered    *)
(* everything by then.                                                     *)
(***************************************************************************)
EXTENDS Naturals, Sequences

CONSTANTS
  MaxRuns,      \* bound: how often emcli is run
  AnswersLate   \* whether the board may still owe answers when the port is opened again

ASSUME ConstantsAssumption == MaxRuns \in Nat \ {0} /\ AnswersLate \in BOOLEAN

VARIABLES
  run,       \* which emcli this is
  pc,        \* open, write, read, done
  place,     \* the command written or read for
  todo,      \* the commands the board has yet to answer, with the run each is from
  buffer,    \* the answers received and not read: OK or not
  executed,  \* history: the commands of this run the board carried out
  outcome    \* none, ok (exit code 0), error

vars == <<run, pc, place, todo, buffer, executed, outcome>>

-----------------------------------------------------------------------------
Commands == <<"SET", "CONFIG SAVE", "REBOOT">>
Places   == DOMAIN Commands

Init ==
  /\ run = 1
  /\ pc = "open"
  /\ place = 1
  /\ todo = <<>>
  /\ buffer = <<>>
  /\ executed = {}
  /\ outcome = "none"

Fail ==
  /\ pc' = "done"
  /\ outcome' = "error"
  /\ UNCHANGED <<run, place, executed>>

\* Mutation: what an earlier emcli left unread stays in the buffer.
KeepReceived == buffer

FlushReceiver == <<>>

Open ==
  /\ pc = "open"
  /\ \/ Fail /\ UNCHANGED buffer
     \/ buffer' = FlushReceiver /\ pc' = "write" /\ UNCHANGED <<run, place, executed, outcome>>
  /\ UNCHANGED todo

Write ==
  /\ pc = "write"
  /\ \/ Fail /\ UNCHANGED todo
     \/ todo' = Append(todo, [run |-> run, place |-> place]) /\ pc' = "read" /\ UNCHANGED <<run, place, executed, outcome>>
  /\ UNCHANGED buffer

\* Mutation: any answer will do.
AnyReply(reply) == TRUE

CheckedReply(reply) == reply

Last == place = Len(Commands)

Read ==
  /\ pc = "read"
  /\ buffer # <<>>
  /\ buffer' = Tail(buffer)
  /\ IF CheckedReply(Head(buffer))
       THEN /\ IF Last
                 THEN pc' = "done" /\ outcome' = "ok" /\ UNCHANGED place
                 ELSE pc' = "write" /\ place' = place + 1 /\ UNCHANGED outcome
            /\ UNCHANGED <<run, executed>>
       ELSE Fail
  /\ UNCHANGED todo

\* 3 s without a complete line.
Timeout ==
  /\ pc = "read"
  /\ buffer = <<>>
  /\ Fail
  /\ UNCHANGED <<todo, buffer>>

\* The board takes the next line: it carries it out (accepts it), or refuses it.
Answer ==
  /\ todo # <<>>
  /\ todo' = Tail(todo)
  /\ LET command == Head(todo) IN
       \/ /\ buffer' = Append(buffer, TRUE)
          /\ executed' = IF command.run = run THEN executed \cup {command.place} ELSE executed
       \/ buffer' = Append(buffer, FALSE) /\ UNCHANGED executed
  /\ UNCHANGED <<run, pc, place, outcome>>

\* The user runs emcli again.
Again ==
  /\ pc = "done"
  /\ run < MaxRuns
  /\ AnswersLate \/ todo = <<>>
  /\ run' = run + 1
  /\ pc' = "open"
  /\ place' = 1
  /\ executed' = {}
  /\ outcome' = "none"
  /\ UNCHANGED <<todo, buffer>>

-----------------------------------------------------------------------------
Done == pc = "done" /\ UNCHANGED vars

Next == Open \/ Write \/ Read \/ Timeout \/ Answer \/ Again \/ Done

Spec == Init /\ [][Next]_vars

-----------------------------------------------------------------------------
(* Every variable holds a value of its type. *)
TypeOK ==
  /\ run \in 1..MaxRuns
  /\ pc \in {"open", "write", "read", "done"}
  /\ place \in Places
  /\ todo \in Seq([run : 1..MaxRuns, place : Places])
  /\ buffer \in Seq(BOOLEAN)
  /\ executed \subseteq Places
  /\ outcome \in {"none", "ok", "error"}

(* SET, CONFIG SAVE and REBOOT are carried out in this order, none before  *)
(* the one in front of it, and success means all three: each answer read   *)
(* is the answer to the command it is read for.                            *)
Workflow == INSTANCE SlaveWorkflow WITH Length <- Len(Commands)

KeepsOrder == Workflow!Spec

(* A setting that could not be saved does not lead to a reboot. *)
SaveFailurePreventsReboot == 3 \in executed => 2 \in executed

=============================================================================
