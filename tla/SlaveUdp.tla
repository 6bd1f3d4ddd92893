------------------------------ MODULE SlaveUdp ------------------------------
(***************************************************************************)
(* `emcli config Ethernet:<nic>:<slave id or UUID> ...`: RunSlaveConfig    *)
(* over UdpConfig (src/cli/slave_config.cc), which sends each request      *)
(* every 300 ms until a matching reply or the 3 s deadline. The network    *)
(* loses, repeats, delays and reorders datagrams: whatever was sent may    *)
(* arrive any number of times, at any later time.                          *)
(*                                                                         *)
(* The boards are external. A board carries out every copy of a request it *)
(* gets, or refuses it (busy, in a CAN session); OK to REBOOT says that it *)
(* accepts, and it restarts later, if at all. It forgets what was not      *)
(* saved when it restarts. Two boards may hold the same address.           *)
(***************************************************************************)
EXTENDS Naturals, Sequences

CONSTANTS
  Boards,       \* the boards on the network, each its own UUID
  Target,       \* the board meant by a UUID on the command line
  MaxSends,     \* bound: sends before the deadline of an exchange
  MaxRestarts   \* bound: restarts of boards nobody asked for

NoUuid == "zero"   \* the UUID that addresses every board

ASSUME ConstantsAssumption ==
  /\ Target \in Boards
  /\ NoUuid \notin Boards
  /\ MaxSends \in Nat \ {0}
  /\ MaxRestarts \in Nat

VARIABLES
  unicast,    \* the target is a slave id
  holders,    \* the boards that hold its address at first
  readdress,  \* the setting is the address (ip, slave), not the mode
  board,      \* per board: the setting in use, in RAM and in flash, and whether a restart is due
  requests,   \* the datagrams ever sent to the boards
  replies,    \* the datagrams ever sent back
  place,      \* 0 during the discovery, then the place of the command
  uuid,       \* target_.uuid
  id,         \* request_id_
  sends,      \* sends of this exchange
  executed,   \* history: the commands carried out
  outcome,    \* none, ok (exit code 0), error
  restarts

optionVars == <<unicast, holders, readdress>>
boardVars  == <<board, replies, executed, restarts>>
hostVars   == <<requests, place, uuid, id, sends, outcome>>
vars == <<optionVars, boardVars, hostVars>>

-----------------------------------------------------------------------------
Commands == <<"SET", "CONFIG_SAVE", "REBOOT">>
Value    == {"old", "new"}
Packet   == {"DISCOVER"} \cup {Commands[i] : i \in DOMAIN Commands}
Request  == [command : Packet, id : 1..Len(Commands) + 1, uuid : Boards \cup {NoUuid}]
Address  == {"target", "new", "other"}
Reply    == [command : {"DISCOVER", "TEXT"}, id : 1..Len(Commands) + 1, uuid : Boards,
             from : Address, ok : BOOLEAN]

Init ==
  /\ unicast \in BOOLEAN
  /\ holders \in {{Target}, Boards}
  /\ readdress \in BOOLEAN
  /\ board = [b \in Boards |-> [live |-> "old", ram |-> "old", flash |-> "old", due |-> FALSE]]
  /\ requests = {}
  /\ replies = {}
  /\ place = IF unicast THEN 0 ELSE 1
  /\ uuid = IF unicast THEN NoUuid ELSE Target
  /\ id = 1
  /\ sends = 0
  /\ executed = {}
  /\ outcome = "none"
  /\ restarts = 0

AddressOf(b) ==
  IF readdress /\ board[b].live = "new" THEN "new" ELSE IF b \in holders THEN "target" ELSE "other"

-----------------------------------------------------------------------------
(* emcli *)

\* Exchange sends the request, each time the same; the send itself may fail.
Send ==
  /\ outcome = "none"
  /\ sends < MaxSends
  /\ \/ /\ sends' = sends + 1
        /\ requests' = requests \cup
             {[command |-> IF place = 0 THEN "DISCOVER" ELSE Commands[place], id |-> id, uuid |-> uuid]}
        /\ UNCHANGED outcome
     \/ outcome' = "error" /\ UNCHANGED <<sends, requests>>
  /\ UNCHANGED <<optionVars, boardVars, place, uuid, id>>

\* The filters of Exchange: the type, the request id, the address if the
\* target has one, and the UUID except in the discovery.
Matches(reply) ==
  /\ reply.id = id
  /\ reply.command = IF place = 0 THEN "DISCOVER" ELSE "TEXT"
  /\ unicast => reply.from = "target"
  /\ place # 0 => reply.uuid = uuid

\* Mutation: every request has the same id.
SameId == id

NextId == id + 1

\* Mutation: any answer will do.
AnyReply(reply) == TRUE

\* A reply that does not begin with OK is an error.
CheckedReply(reply) == reply.ok

\* Mutation: the UUID discovered is not kept.
ForgetUuid(reply) == uuid

DiscoveredUuid(reply) == IF place = 0 THEN reply.uuid ELSE uuid

Last == place = Len(Commands)

\* The reply ends the exchange; the next command has an exchange of its own.
Receive(reply) ==
  /\ outcome = "none"
  /\ sends > 0
  /\ Matches(reply)
  /\ IF CheckedReply(reply)
       THEN /\ uuid' = DiscoveredUuid(reply)
            /\ IF Last
                 THEN outcome' = "ok" /\ UNCHANGED <<place, id, sends>>
                 ELSE place' = place + 1 /\ id' = NextId /\ sends' = 0 /\ UNCHANGED outcome
       ELSE outcome' = "error" /\ UNCHANGED <<place, uuid, id, sends>>
  /\ UNCHANGED <<optionVars, boardVars, requests>>

\* Mutation: the deadline moves with every send.
NoDeadline == FALSE

Deadline == sends = MaxSends

Timeout ==
  /\ outcome = "none"
  /\ Deadline
  /\ outcome' = "error"
  /\ UNCHANGED <<optionVars, boardVars, requests, place, uuid, id, sends>>

-----------------------------------------------------------------------------
(* The boards. *)

Reaches(request, b) ==
  /\ unicast => AddressOf(b) = "target"
  /\ request.uuid \in {b, NoUuid}

Answer(request, b, ok) ==
  replies' = replies \cup
    {[command |-> IF request.command = "DISCOVER" THEN "DISCOVER" ELSE "TEXT",
      id |-> request.id, uuid |-> b, from |-> AddressOf(b), ok |-> ok]}

PlaceOf(command) == CHOOSE i \in DOMAIN Commands : Commands[i] = command

\* A board starts with what it has saved.
FromFlash(b) ==
  [board EXCEPT ![b] = [live |-> @.flash, ram |-> @.flash, flash |-> @.flash, due |-> FALSE]]

\* A copy of a request arrives, and is carried out or refused. What REBOOT does
\* at once is to make a restart due.
Arrive(request, b) ==
  /\ Reaches(request, b)
  /\ \/ request.command = "DISCOVER" /\ Answer(request, b, TRUE) /\ UNCHANGED <<board, executed>>
     \/ /\ request.command # "DISCOVER"
        /\ Answer(request, b, FALSE)
        /\ UNCHANGED <<board, executed>>
     \/ /\ request.command # "DISCOVER"
        /\ Answer(request, b, TRUE)
        /\ executed' = executed \cup {PlaceOf(request.command)}
        /\ board' = CASE request.command = "SET" -> [board EXCEPT ![b].ram = "new"]
                      [] request.command = "CONFIG_SAVE" -> [board EXCEPT ![b].flash = board[b].ram]
                      [] request.command = "REBOOT" -> [board EXCEPT ![b].due = TRUE]
  /\ UNCHANGED <<optionVars, hostVars, restarts>>

\* The restart that was accepted; nothing says when.
Reboot(b) ==
  /\ board[b].due
  /\ board' = FromFlash(b)
  /\ UNCHANGED <<optionVars, hostVars, replies, executed, restarts>>

Restart(b) ==
  /\ restarts < MaxRestarts
  /\ restarts' = restarts + 1
  /\ board' = FromFlash(b)
  /\ UNCHANGED <<optionVars, hostVars, replies, executed>>

-----------------------------------------------------------------------------
Host == Send \/ Timeout \/ \E reply \in replies : Receive(reply)

Network ==
  \E b \in Boards : Reboot(b) \/ Restart(b) \/ \E request \in requests : Arrive(request, b)

Done == outcome # "none" /\ UNCHANGED vars

Next == Host \/ Network \/ Done

\* emcli runs; nothing is assumed of the network and the boards.
Spec == Init /\ [][Next]_vars /\ WF_vars(Host)

-----------------------------------------------------------------------------
(* Every variable holds a value of its type. *)
TypeOK ==
  /\ {unicast, readdress} \subseteq BOOLEAN
  /\ holders \subseteq Boards
  /\ board \in [Boards -> [live : Value, ram : Value, flash : Value, due : BOOLEAN]]
  /\ requests \subseteq Request
  /\ replies \subseteq Reply
  /\ place \in 0..Len(Commands)
  /\ uuid \in Boards \cup {NoUuid}
  /\ id \in 1..Len(Commands) + 1
  /\ sends \in 0..MaxSends
  /\ executed \subseteq DOMAIN Commands
  /\ outcome \in {"none", "ok", "error"}
  /\ restarts \in 0..MaxRestarts

(* One invocation configures one board, even when two hold the address it  *)
(* was given, and the board of the UUID if it was given one.               *)
OneBoardIsConfigured ==
  \A b \in Boards : board[b].ram = "new" \/ board[b].flash = "new" => b = uuid

(* Exit code 0 means that the setting is in flash, however many copies of  *)
(* the requests arrive and whenever, and that it is in use or the board    *)
(* has accepted the restart that puts it in use: OK REBOOT says no more.   *)
(* Except if a board restarted by itself, which may be between SET and     *)
(* CONFIG SAVE and emcli cannot see it.                                    *)
SuccessIsSaved ==
  (outcome = "ok" /\ restarts = 0) =>
    /\ board[uuid].flash = "new"
    /\ board[uuid].live = "new" \/ board[uuid].due

(* Every exchange ends, in an answer or at the deadline. *)
ConfigEnds == <>(outcome # "none")

(* SET, CONFIG SAVE and REBOOT are carried out in this order, none before  *)
(* the one in front of it, and success means all three.                    *)
Workflow == INSTANCE SlaveWorkflow WITH Length <- Len(Commands)

KeepsOrder == Workflow!Spec

=============================================================================
