-------------------------- MODULE SlaveConfig_proofs --------------------------
(***************************************************************************)
(* Machine-checked proofs about emcli config of a slave, for any number of *)
(* boards, sends, restarts and runs.                                       *)
(*                                                                         *)
(* Over Ethernet, one board is configured, success means that the setting  *)
(* is saved, and SlaveUdp implements SlaveWorkflow. Everything rests on   *)
(* the request id. It tells which command a datagram stands for, however   *)
(* late it comes, so a command is only ever sent when the one before it    *)
(* has been carried out, and a late copy of an earlier command repeats     *)
(* what is done already.                                                   *)
(*                                                                         *)
(* Over CDC there is no id. SlaveCdc implements SlaveWorkflow if the board *)
(* has answered all of one run before the next: the last section. It is    *)
(* an instance, since the two have variables of the same names.            *)
(***************************************************************************)
EXTENDS SlaveUdp, TLAPS

Offset == IF unicast THEN 1 ELSE 0
CommandAt(p) == IF p = 0 THEN "DISCOVER" ELSE Commands[p]

Setting == [live : Value, ram : Value, flash : Value, due : BOOLEAN]
ToBoard == [command : {"DISCOVER", "SET", "CONFIG_SAVE", "REBOOT"}, id : 1..4,
            uuid : Boards \cup {NoUuid}]
FromBoard == [command : {"DISCOVER", "TEXT"}, id : 1..4, uuid : Boards, from : Address,
              ok : BOOLEAN]

(* TypeOK, with the length of the workflow and the packets spelt out. *)
Types ==
  /\ unicast \in BOOLEAN /\ readdress \in BOOLEAN
  /\ holders \subseteq Boards
  /\ board \in [Boards -> Setting]
  /\ requests \subseteq ToBoard
  /\ replies \subseteq FromBoard
  /\ place \in 0..3
  /\ uuid \in Boards \cup {NoUuid}
  /\ id \in 1..4
  /\ sends \in 0..MaxSends
  /\ executed \subseteq 1..3
  /\ outcome \in {"none", "ok", "error"}
  /\ restarts \in 0..MaxRestarts

(* What the ids, the UUID and the datagrams say. *)
NetInv ==
  /\ id = place + Offset
  /\ place = 0 => unicast
  /\ place = 0 <=> uuid = NoUuid
  /\ \A r \in requests :
       /\ r.id - Offset \in 0..place
       /\ r.command = CommandAt(r.id - Offset)
       /\ r.command # "DISCOVER" => r.uuid = uuid
  /\ \A a \in replies : (a.command = "TEXT" /\ a.ok) => a.id - Offset \in executed

(* The commands before the present one have been carried out, and none     *)
(* after it.                                                               *)
OrderInv ==
  /\ executed \subseteq 1..place
  /\ \A p \in 1..3 : p < place => p \in executed
  /\ outcome = "ok" => place = 3 /\ 3 \in executed

(* What the commands carried out have left in the board. *)
BoardInv ==
  /\ OneBoardIsConfigured
  /\ restarts = 0 => /\ 1 \in executed => board[uuid].ram = "new"
                     /\ 2 \in executed => board[uuid].flash = "new"
                     /\ 3 \in executed => board[uuid].live = "new" \/ board[uuid].due
  /\ \A b \in Boards : board[b].due => 3 \in executed

IInv == Types /\ NetInv /\ OrderInv /\ BoardInv

-----------------------------------------------------------------------------
(* The workflow has three commands. *)
LEMMA ThreeCommands ==
  /\ Len(Commands) = 3 /\ DOMAIN Commands = 1..3
  /\ Commands[1] = "SET" /\ Commands[2] = "CONFIG_SAVE" /\ Commands[3] = "REBOOT"
BY DEF Commands

(* Each command is found at its place. *)
LEMMA Places ==
  ASSUME NEW p \in 1..3
  PROVE  PlaceOf(Commands[p]) = p /\ Commands[p] # "DISCOVER"
<1>1. \A q \in 1..3 : Commands[q] = Commands[p] => q = p
  BY ThreeCommands
<1>2. \E q \in DOMAIN Commands : Commands[q] = Commands[p]
  BY ThreeCommands
<1>3. PlaceOf(Commands[p]) \in DOMAIN Commands /\ Commands[PlaceOf(Commands[p])] = Commands[p]
  BY <1>2 DEF PlaceOf
<1> QED
  BY ThreeCommands, <1>1, <1>3

(* Types is TypeOK. *)
LEMMA TypesAreTypeOK == Types <=> TypeOK
<1>1. Packet = {"DISCOVER", "SET", "CONFIG_SAVE", "REBOOT"}
  BY ThreeCommands DEF Packet
<1>2. Len(Commands) = 3 /\ DOMAIN Commands = 1..3 /\ 1..Len(Commands) + 1 = 1..4
  BY ThreeCommands
<1>3. Request = ToBoard /\ Reply = FromBoard
  BY <1>1, <1>2 DEF Request, Reply, ToBoard, FromBoard
<1> QED
  BY <1>2, <1>3 DEF Types, TypeOK, Setting

(* The initial state satisfies the invariant. *)
LEMMA InitIInv == Init => IInv
<1> SUFFICES ASSUME Init
             PROVE  IInv
  OBVIOUS
<1> USE ConstantsAssumption DEF Init
<1>1. Types
  BY DEF Types, Setting, Value
<1>2. NetInv
  BY DEF NetInv, Offset
<1>3. OrderInv
  BY DEF OrderInv
<1>4. BoardInv
  BY DEF BoardInv, OneBoardIsConfigured
<1> QED
  BY <1>1, <1>2, <1>3, <1>4 DEF IInv

-----------------------------------------------------------------------------
(* Sending keeps the invariant. *)
LEMMA SendStep == IInv /\ Send => IInv'
<1> SUFFICES ASSUME IInv, Send
             PROVE  IInv'
  OBVIOUS
<1> USE DEF optionVars, boardVars
<1>0. CASE outcome' = "error" /\ UNCHANGED <<sends, requests>>
  <2>1. UNCHANGED <<unicast, holders, readdress, board, replies, executed, restarts, requests, place,
                    uuid, id, sends>>
    BY <1>0 DEF Send
  <2> QED
    BY <1>0, <2>1 DEF IInv, Types, NetInv, OrderInv, BoardInv, OneBoardIsConfigured, Offset, CommandAt
<1>1. CASE ~(outcome' = "error" /\ UNCHANGED <<sends, requests>>)
  <2> USE <1>1 DEF Send
  <2> DEFINE r == [command |-> IF place = 0 THEN "DISCOVER" ELSE Commands[place], id |-> id, uuid |-> uuid]
  <2>1. place \in 0..3 /\ Offset \in {0, 1} /\ id = place + Offset /\ id \in 1..4
    BY DEF IInv, Types, NetInv, Offset
  <2>2. /\ r \in ToBoard
        /\ r.id - Offset = place /\ r.command = CommandAt(place)
        /\ r.uuid = uuid
    <3>1. place # 0 => Commands[place] \in {"SET", "CONFIG_SAVE", "REBOOT"}
      BY <2>1, ThreeCommands
    <3>2. uuid \in Boards \cup {NoUuid}
      BY DEF IInv, Types
    <3> QED
      BY <2>1, <3>1, <3>2 DEF ToBoard, CommandAt
  <2>3. requests' = requests \cup {r}
    OBVIOUS
  <2> HIDE DEF r
  <2>4. Types'
    <3>1. sends' \in 0..MaxSends
      BY ConstantsAssumption DEF IInv, Types
    <3> QED
      BY <2>2, <2>3, <3>1 DEF IInv, Types
  <2>5. NetInv'
    <3>1. Offset' = Offset
      BY DEF Offset
    <3>2. \A q \in requests' : /\ q.id - Offset \in 0..place
                               /\ q.command = CommandAt(q.id - Offset)
                               /\ q.command # "DISCOVER" => q.uuid = uuid
      BY <2>1, <2>2, <2>3 DEF IInv, NetInv
    <3> QED
      BY <3>1, <3>2 DEF IInv, NetInv, CommandAt
  <2>6. OrderInv'
    BY DEF IInv, OrderInv
  <2>7. BoardInv'
    BY DEF IInv, BoardInv, OneBoardIsConfigured
  <2> QED
    BY <2>4, <2>5, <2>6, <2>7 DEF IInv
<1> QED
  BY <1>0, <1>1

(* An answer that ends an exchange says that its command was carried out. *)
LEMMA ReceiveStep ==
  ASSUME IInv, NEW reply \in replies, Receive(reply)
  PROVE  IInv'
<1> USE DEF optionVars, boardVars
<1>1. /\ place \in 0..3 /\ Offset \in {0, 1} /\ id = place + Offset /\ id \in 1..4
      /\ Offset' = Offset
      /\ Last <=> place = 3
  BY ThreeCommands DEF IInv, Types, NetInv, Offset, Receive, Last
<1>2. reply.uuid \in Boards /\ reply.uuid # NoUuid
  BY ConstantsAssumption DEF IInv, Types, FromBoard
<1>3. UNCHANGED <<unicast, holders, readdress, board, replies, executed, restarts, requests>>
  BY DEF Receive
<1>4. CASE ~CheckedReply(reply)
  <2>1. outcome' = "error" /\ UNCHANGED <<place, uuid, id, sends>>
    BY <1>4 DEF Receive
  <2>2. Types'
    BY <2>1, <1>3 DEF IInv, Types
  <2>3. NetInv' /\ OrderInv' /\ BoardInv'
    BY <2>1, <1>1, <1>3 DEF IInv, NetInv, OrderInv, BoardInv, OneBoardIsConfigured, CommandAt
  <2> QED
    BY <2>2, <2>3 DEF IInv
<1>5. CASE CheckedReply(reply)
  <2>1. place # 0 => place \in executed
    <3> HAVE place # 0
    <3>1. reply.id = id /\ reply.command = "TEXT" /\ reply.ok
      BY <1>5 DEF Receive, Matches, CheckedReply
    <3>2. reply.id - Offset \in executed
      BY <3>1 DEF IInv, NetInv
    <3> QED
      BY <3>1, <3>2, <1>1
  <2>2. uuid' \in Boards /\ uuid' # NoUuid /\ (place # 0 => uuid' = uuid)
    BY <1>2, <1>5 DEF Receive, DiscoveredUuid, IInv, Types, NetInv
  <2>3. CASE Last
    <3>1. outcome' = "ok" /\ UNCHANGED <<place, id, sends>> /\ uuid' = uuid
      BY <1>1, <1>5, <2>2, <2>3 DEF Receive
    <3>2. Types'
      BY <3>1, <1>3 DEF IInv, Types
    <3>3. NetInv'
      BY <3>1, <1>1, <1>3 DEF IInv, NetInv, CommandAt
    <3>4. OrderInv' /\ BoardInv'
      BY <3>1, <1>1, <1>3, <2>1, <2>3 DEF IInv, OrderInv, BoardInv, OneBoardIsConfigured
    <3> QED
      BY <3>2, <3>3, <3>4 DEF IInv
  <2>4. CASE ~Last
    <3>1. /\ place' = place + 1 /\ id' = id + 1 /\ sends' = 0 /\ UNCHANGED outcome
          /\ outcome = "none"
      BY <1>5, <2>4 DEF Receive, NextId
    <3>2. place' \in 1..3 /\ id' \in 1..4 /\ id' = place' + Offset
      BY <1>1, <2>4, <3>1
    <3>3. Types'
      <4>1. sends' \in 0..MaxSends
        BY <3>1, ConstantsAssumption
      <4> QED
        BY <3>1, <3>2, <4>1, <1>3, <2>2 DEF IInv, Types
    <3>4. NetInv'
      <4>1. ASSUME NEW r \in requests
            PROVE  /\ r.id - Offset \in 0..place'
                   /\ r.command = CommandAt(r.id - Offset)
                   /\ r.command # "DISCOVER" => r.uuid = uuid'
        <5>1. /\ r.id - Offset \in 0..place
              /\ r.command = CommandAt(r.id - Offset)
              /\ r.command # "DISCOVER" => r.uuid = uuid
          BY DEF IInv, NetInv
        <5>2. r.command # "DISCOVER" => place # 0
          BY <5>1, <1>1 DEF CommandAt
        <5>3. r.id - Offset \in 0..place'
          BY <5>1, <1>1, <3>1
        <5> QED
          BY <5>1, <5>2, <5>3, <2>2
      <4>2. \A a \in replies : (a.command = "TEXT" /\ a.ok) => a.id - Offset \in executed
        BY DEF IInv, NetInv
      <4>3. place' # 0 /\ uuid' # NoUuid
        BY <3>2, <2>2
      <4> QED
        BY <4>1, <4>2, <4>3, <1>1, <1>3, <3>2 DEF NetInv, CommandAt
    <3>5. OrderInv'
      <4>1. executed \subseteq 1..place' /\ \A p \in 1..3 : p < place' => p \in executed
        BY <1>1, <3>1, <2>1 DEF IInv, OrderInv
      <4> QED
        BY <4>1, <3>1, <1>3 DEF OrderInv
    <3>6. BoardInv'
      <4>1. CASE place = 0
        <5>1. executed = {}
          BY <4>1 DEF IInv, OrderInv
        <5>2. \A b \in Boards : board[b].ram # "new" /\ board[b].flash # "new"
          BY <4>1, ConstantsAssumption DEF IInv, NetInv, BoardInv, OneBoardIsConfigured
        <5>3. \A b \in Boards : board[b].due => 3 \in executed
          BY DEF IInv, BoardInv
        <5> QED
          BY <5>1, <5>2, <5>3, <1>3 DEF BoardInv, OneBoardIsConfigured
      <4>2. CASE place # 0
        BY <4>2, <2>2, <1>3 DEF IInv, BoardInv, OneBoardIsConfigured
      <4> QED
        BY <4>1, <4>2
    <3> QED
      BY <3>3, <3>4, <3>5, <3>6 DEF IInv
  <2> QED
    BY <2>3, <2>4
<1> QED
  BY <1>4, <1>5

(* What the copies of a request do at a board. *)
LEMMA ArriveStep ==
  ASSUME IInv, NEW b \in Boards, NEW request \in requests, Arrive(request, b)
  PROVE  /\ IInv'
         /\ executed' # executed => executed' = executed \cup {place} /\ place # 0
<1> USE DEF optionVars, hostVars
<1> DEFINE p == request.id - Offset
           a(ok) == [command |-> IF request.command = "DISCOVER" THEN "DISCOVER" ELSE "TEXT",
                     id |-> request.id, uuid |-> b, from |-> AddressOf(b), ok |-> ok]
<1>1. /\ p \in 0..place /\ place \in 0..3 /\ request.command = CommandAt(p)
      /\ request.id \in 1..4
      /\ Offset \in {0, 1} /\ Offset' = Offset
      /\ request.command # "DISCOVER" => request.uuid = uuid
  BY DEF IInv, Types, NetInv, ToBoard, Offset, Arrive
<1>2. UNCHANGED <<unicast, holders, readdress, requests, place, uuid, id, sends, outcome, restarts>>
  BY DEF Arrive
<1>3. \A ok \in BOOLEAN : a(ok) \in FromBoard /\ a(ok).id = request.id /\ a(ok).ok = ok
  BY <1>1 DEF FromBoard, Address, AddressOf
<1>4. CASE /\ UNCHANGED <<board, executed>>
           /\ \/ request.command = "DISCOVER" /\ Answer(request, b, TRUE)
              \/ request.command # "DISCOVER" /\ Answer(request, b, FALSE)
  <2>1. PICK ok \in BOOLEAN : /\ replies' = replies \cup {a(ok)}
                              /\ a(ok).command # "TEXT" \/ ~a(ok).ok
    BY <1>4 DEF Answer
  <2> HIDE DEF a, p
  <2>2. Types'
    BY <1>2, <1>3, <1>4, <2>1 DEF IInv, Types
  <2>3. NetInv'
    BY <1>1, <1>2, <1>3, <1>4, <2>1 DEF IInv, NetInv, CommandAt
  <2>4. OrderInv' /\ BoardInv'
    BY <1>2, <1>4 DEF IInv, OrderInv, BoardInv, OneBoardIsConfigured
  <2> QED
    BY <1>4, <2>2, <2>3, <2>4 DEF IInv
<1>5. CASE /\ request.command # "DISCOVER"
           /\ Answer(request, b, TRUE)
           /\ executed' = executed \cup {PlaceOf(request.command)}
           /\ board' = CASE request.command = "SET" -> [board EXCEPT ![b].ram = "new"]
                        [] request.command = "CONFIG_SAVE" -> [board EXCEPT ![b].flash = board[b].ram]
                        [] request.command = "REBOOT" -> [board EXCEPT ![b].due = TRUE]
  <2>1. p \in 1..3 /\ p <= place /\ request.command = Commands[p] /\ PlaceOf(request.command) = p
    BY <1>1, <1>5, Places DEF CommandAt
  <2>2. replies' = replies \cup {a(TRUE)} /\ executed' = executed \cup {p}
    BY <1>5, <2>1 DEF Answer
  <2>3. b = uuid
    BY <1>1, <1>5, <2>1 DEF Arrive, Reaches, IInv, NetInv
  <2>4. \A q \in 1..3 : q < p => q \in executed
    BY <2>1, <1>1 DEF IInv, OrderInv
  <2> HIDE DEF a
  <2>5. \A c \in Boards : c # b => board'[c] = board[c]
    <3>1. p = 1 \/ p = 2 \/ p = 3
      BY <2>1
    <3> HIDE DEF p
    <3>2. DOMAIN board = Boards
      BY DEF IInv, Types
    <3> QED
      BY <1>5, <2>1, <3>1, <3>2, ThreeCommands
  <2>6. /\ board' \in [Boards -> Setting]
        /\ board'[b].live = board[b].live
        /\ board'[b].ram = IF p = 1 THEN "new" ELSE board[b].ram
        /\ board'[b].flash = IF p = 2 THEN board[b].ram ELSE board[b].flash
        /\ board'[b].due <=> (p = 3 \/ board[b].due)
    <3>1. board \in [Boards -> Setting]
      BY DEF IInv, Types
    <3>2. p = 1 \/ p = 2 \/ p = 3
      BY <2>1
    <3> HIDE DEF p
    <3>3. CASE p = 1
      <4> DEFINE e == [live |-> board[b].live, ram |-> "new", flash |-> board[b].flash,
                       due |-> board[b].due]
      <4>1. e \in Setting
        BY <3>1 DEF Setting, Value
      <4>2. board' = [board EXCEPT ![b].ram = "new"]
        BY <1>5, <2>1, <3>3, ThreeCommands
      <4>3. [board[b] EXCEPT !.ram = "new"] = e
        BY <3>1 DEF Setting
      <4>4. board' = [board EXCEPT ![b] = e]
        BY <3>1, <4>2, <4>3
      <4> QED
        BY <3>1, <3>3, <4>1, <4>4
    <3>4. CASE p = 2
      <4> DEFINE e == [live |-> board[b].live, ram |-> board[b].ram, flash |-> board[b].ram,
                       due |-> board[b].due]
      <4>1. e \in Setting
        BY <3>1 DEF Setting, Value
      <4>2. board' = [board EXCEPT ![b].flash = board[b].ram]
        BY <1>5, <2>1, <3>4, ThreeCommands
      <4>3. [board[b] EXCEPT !.flash = board[b].ram] = e
        BY <3>1 DEF Setting
      <4>4. board' = [board EXCEPT ![b] = e]
        BY <3>1, <4>2, <4>3
      <4> QED
        BY <3>1, <3>4, <4>1, <4>4
    <3>5. CASE p = 3
      <4> DEFINE e == [board[b] EXCEPT !.due = TRUE]
      <4>1. /\ e \in Setting
            /\ e.live = board[b].live /\ e.ram = board[b].ram /\ e.flash = board[b].flash
            /\ e.due
        BY <3>1 DEF Setting
      <4>2. board' = [board EXCEPT ![b].due = TRUE]
        BY <1>5, <2>1, <3>5, ThreeCommands
      <4>3. board' = [board EXCEPT ![b] = e]
        BY <3>1, <4>2
      <4> HIDE DEF e
      <4>4. board' \in [Boards -> Setting] /\ board'[b] = e
        BY <3>1, <4>1, <4>3
      <4> QED
        BY <3>5, <4>1, <4>4
    <3> QED
      BY <3>2, <3>3, <3>4, <3>5
  <2> HIDE DEF p
  <2>7. Types'
    BY <1>2, <1>3, <2>1, <2>2, <2>6 DEF IInv, Types
  <2>8. NetInv'
    <3>1. \A c \in replies' : (c.command = "TEXT" /\ c.ok) => c.id - Offset \in executed'
      BY <1>3, <2>2 DEF IInv, NetInv, p
    <3> QED
      BY <3>1, <1>1, <1>2 DEF IInv, NetInv, CommandAt
  <2>9. OrderInv'
    BY <1>1, <1>2, <2>1, <2>2 DEF IInv, OrderInv
  <2>10. BoardInv'
    <3>1. OneBoardIsConfigured'
      BY <1>2, <2>3, <2>5 DEF IInv, BoardInv, OneBoardIsConfigured
    <3>2. board[b] \in Setting
      BY DEF IInv, Types
    <3>3. ASSUME restarts = 0
          PROVE  /\ 1 \in executed' => board'[b].ram = "new"
                 /\ 2 \in executed' => board'[b].flash = "new"
                 /\ 3 \in executed' => board'[b].live = "new" \/ board'[b].due
      <4>1. /\ 1 \in executed => board[b].ram = "new"
            /\ 2 \in executed => board[b].flash = "new"
            /\ 3 \in executed => board[b].live = "new" \/ board[b].due
        BY <3>3, <2>3 DEF IInv, BoardInv
      <4>2. CASE p = 1
        BY <4>1, <4>2, <2>2, <2>6, <3>2 DEF Setting
      <4>3. CASE p = 2
        BY <4>1, <4>3, <2>2, <2>4, <2>6, <3>2 DEF Setting
      <4>4. CASE p = 3
        BY <4>1, <4>4, <2>2, <2>4, <2>6, <3>2 DEF Setting
      <4> QED
        BY <2>1, <4>2, <4>3, <4>4
    <3>4. ASSUME NEW c \in Boards, board'[c].due
          PROVE  3 \in executed'
      <4>1. CASE board[c].due
        BY <2>2, <4>1 DEF IInv, BoardInv
      <4>2. CASE ~board[c].due
        <5>1. c = b /\ p = 3
          BY <2>5, <2>6, <3>4, <4>2
        <5> QED
          BY <2>2, <5>1
      <4> QED
        BY <4>1, <4>2
    <3> QED
      BY <1>2, <2>3, <3>1, <3>3, <3>4 DEF BoardInv
  <2>11. executed' # executed => p = place
    <3> SUFFICES ASSUME p # place
                 PROVE  executed' = executed
      OBVIOUS
    <3>1. p < place /\ p \in executed
      BY <1>1, <2>1 DEF IInv, OrderInv
    <3> QED
      BY <2>2, <3>1
  <2> QED
    BY <2>1, <2>2, <2>7, <2>8, <2>9, <2>10, <2>11 DEF IInv
<1> QED
  BY <1>4, <1>5 DEF Arrive

(* A restart loses what was not saved. *)
LEMMA StartFromFlash ==
  ASSUME IInv, NEW b \in Boards, board' = FromFlash(b),
         UNCHANGED <<optionVars, hostVars, replies, executed>>, restarts' \in 0..MaxRestarts
  PROVE  Types' /\ NetInv' /\ OrderInv' /\ OneBoardIsConfigured'
<1> USE DEF optionVars, hostVars, FromFlash
<1>1. board \in [Boards -> Setting] /\ board' \in [Boards -> Setting]
  BY DEF IInv, Types, Setting
<1>2. Types'
  BY <1>1 DEF IInv, Types
<1>3. NetInv' /\ OrderInv'
  BY DEF IInv, NetInv, OrderInv, Offset, CommandAt
<1>4. \A c \in Boards : board'[c].ram = "new" \/ board'[c].flash = "new" =>
                        board[c].ram = "new" \/ board[c].flash = "new"
  BY <1>1 DEF Setting
<1>5. OneBoardIsConfigured'
  BY <1>4 DEF IInv, BoardInv, OneBoardIsConfigured
<1> QED
  BY <1>2, <1>3, <1>5

(* The restart that was accepted: what it puts in use was saved before. *)
LEMMA RebootStep ==
  ASSUME IInv, NEW b \in Boards, Reboot(b)
  PROVE  IInv'
<1> USE DEF optionVars, hostVars, Reboot
<1>1. Types' /\ NetInv' /\ OrderInv' /\ OneBoardIsConfigured'
  BY StartFromFlash DEF IInv, Types
<1>2. \A c \in Boards : board'[c].due => 3 \in executed
  BY DEF IInv, Types, Setting, BoardInv, FromFlash
<1>3. 3 \in executed /\ 2 \in executed
  BY DEF IInv, BoardInv, OrderInv, Types
<1>4. ASSUME restarts = 0
      PROVE  board'[uuid].ram = "new" /\ board'[uuid].flash = "new"
             /\ (board'[uuid].live = "new" \/ board'[uuid].due)
  <2>1. /\ board[uuid].flash = "new"
        /\ board[uuid].ram = "new"
        /\ board[uuid].live = "new" \/ board[uuid].due
    BY <1>3, <1>4 DEF IInv, BoardInv, OrderInv, Types
  <2>2. CASE b = uuid
    BY <2>1, <2>2 DEF FromFlash, IInv, Types
  <2>3. CASE b # uuid
    BY <2>1, <2>3 DEF FromFlash, IInv, Types
  <2> QED
    BY <2>2, <2>3
<1> QED
  BY <1>1, <1>2, <1>4 DEF IInv, BoardInv

(* A restart nobody asked for. *)
LEMMA RestartStep ==
  ASSUME IInv, NEW b \in Boards, Restart(b)
  PROVE  IInv'
<1> USE DEF Restart
<1>1. restarts' \in 0..MaxRestarts /\ restarts' # 0
  BY ConstantsAssumption DEF IInv, Types
<1>2. Types' /\ NetInv' /\ OrderInv' /\ OneBoardIsConfigured'
  BY <1>1, StartFromFlash
<1>3. \A c \in Boards : board'[c].due => 3 \in executed
  BY DEF IInv, Types, Setting, BoardInv, FromFlash
<1> QED
  BY <1>1, <1>2, <1>3 DEF IInv, BoardInv

(* Every step keeps the invariant. *)
LEMMA InvStep == IInv /\ [Next]_vars => IInv'
<1> SUFFICES ASSUME IInv, [Next]_vars
             PROVE  IInv'
  OBVIOUS
<1>1. CASE Timeout
  BY <1>1 DEF Timeout, IInv, Types, NetInv, OrderInv, BoardInv, OneBoardIsConfigured, Offset,
              CommandAt, optionVars, boardVars
<1>2. CASE UNCHANGED vars
  BY <1>2 DEF IInv, Types, NetInv, OrderInv, BoardInv, OneBoardIsConfigured, Offset,
              CommandAt, vars, optionVars, boardVars, hostVars
<1> QED
  BY <1>1, <1>2, SendStep, ReceiveStep, ArriveStep, RebootStep, RestartStep DEF Next, Host, Network, Done

-----------------------------------------------------------------------------
(* The inductive invariant holds in every state. *)
THEOREM Invariance == Spec => []IInv
BY InitIInv, InvStep, PTL DEF Spec

(* Every variable keeps its type. *)
THEOREM TypeCorrect == Spec => []TypeOK
<1>1. IInv => TypeOK
  BY TypesAreTypeOK DEF IInv
<1> QED
  BY <1>1, Invariance, PTL

(* Whatever the network does, one board is configured: the board of the    *)
(* UUID, or the one that was discovered.                                   *)
THEOREM ConfiguresOneBoard == Spec => []OneBoardIsConfigured
<1>1. IInv => OneBoardIsConfigured
  BY DEF IInv, BoardInv
<1> QED
  BY <1>1, Invariance, PTL

(* Exit code 0 means that the setting is saved, and in use or the restart  *)
(* that puts it in use accepted, whichever datagrams were lost, repeated   *)
(* or late, unless a board restarted by itself.                            *)
THEOREM SuccessSaved == Spec => []SuccessIsSaved
<1>1. IInv => SuccessIsSaved
  <2> SUFFICES ASSUME IInv, outcome = "ok", restarts = 0
               PROVE  /\ board[uuid].flash = "new"
                      /\ board[uuid].live = "new" \/ board[uuid].due
    BY DEF SuccessIsSaved
  <2>1. place = 3 /\ 3 \in executed /\ 2 \in executed
    BY DEF IInv, OrderInv
  <2> QED
    BY <2>1 DEF IInv, BoardInv
<1> QED
  BY <1>1, Invariance, PTL

-----------------------------------------------------------------------------
(* The commands carried out are those up to the present place, with or     *)
(* without it.                                                             *)
LEMMA ExecutedInOrder ==
  ASSUME IInv, place # 0, place \notin executed
  PROVE  place \in 1..3 /\ executed = 1..(place - 1)
<1>1. place \in 1..3
  BY DEF IInv, Types
<1>2. executed \subseteq 1..(place - 1)
  BY <1>1 DEF IInv, OrderInv
<1>3. 1..(place - 1) \subseteq executed
  BY <1>1 DEF IInv, OrderInv
<1> QED
  BY <1>1, <1>2, <1>3

(* A step of emcli or of a board is a step of the workflow or changes      *)
(* nothing of it.                                                          *)
LEMMA WorkflowStep == IInv /\ IInv' /\ [Next]_vars => [Workflow!Next]_(Workflow!vars)
<1> SUFFICES ASSUME IInv, IInv', [Next]_vars
             PROVE  [Workflow!Next]_(Workflow!vars)
  OBVIOUS
<1> USE DEF Workflow!vars
<1>1. CASE Send \/ Timeout \/ Done \/ UNCHANGED vars \/ \E b \in Boards : Reboot(b) \/ Restart(b)
  BY <1>1 DEF Send, Timeout, Done, Reboot, Restart, vars, optionVars, boardVars, hostVars,
              Workflow!Next, Workflow!Fail
<1>2. ASSUME NEW reply \in replies, Receive(reply)
      PROVE  [Workflow!Next]_(Workflow!vars)
  <2>1. UNCHANGED executed /\ outcome = "none"
    BY <1>2 DEF Receive, boardVars
  <2>2. CASE outcome' = "ok"
    <3>1. place' = 3 /\ 3 \in executed' /\ executed' \subseteq 1..3
      BY <2>2 DEF IInv, OrderInv
    <3>2. \A p \in 1..3 : p < place' => p \in executed'
      BY DEF IInv, OrderInv
    <3>3. 1 \in executed' /\ 2 \in executed'
      BY <3>1, <3>2
    <3>4. executed' = 1..3
      <4>1. \A c \in 1..3 : c = 1 \/ c = 2 \/ c = 3
        OBVIOUS
      <4>2. 1..3 \subseteq executed'
        BY <3>1, <3>3, <4>1
      <4> QED
        BY <3>1, <4>2
    <3> QED
      BY <2>1, <2>2, <3>4, ThreeCommands DEF Workflow!Next, Workflow!Succeed
  <2>3. CASE outcome' # "ok"
    BY <1>2, <2>1, <2>3 DEF Receive, Workflow!Next, Workflow!Fail
  <2> QED
    BY <2>2, <2>3
<1>3. ASSUME NEW b \in Boards, NEW request \in requests, Arrive(request, b)
      PROVE  [Workflow!Next]_(Workflow!vars)
  <2>1. UNCHANGED outcome
    BY <1>3 DEF Arrive, hostVars
  <2>2. CASE executed' = executed
    BY <2>1, <2>2
  <2>3. CASE executed' # executed
    <3>1. executed' = executed \cup {place} /\ place # 0
      BY <1>3, <2>3, ArriveStep
    <3>2. place \in 1..Len(Commands) /\ executed = 1..(place - 1)
      BY <2>3, <3>1, ExecutedInOrder, ThreeCommands
    <3>3. executed' = 1..place
      BY <3>1, <3>2, ThreeCommands
    <3> QED
      BY <2>1, <3>2, <3>3 DEF Workflow!Next, Workflow!Execute
  <2> QED
    BY <2>2, <2>3
<1> QED
  BY <1>1, <1>2, <1>3 DEF Next, Host, Network

(* SlaveUdp implements SlaveWorkflow: over a network that loses, repeats,  *)
(* delays and reorders, the commands are carried out in order, none before *)
(* the one in front of it, and exit code 0 means all of them.              *)
THEOREM ImplementsWorkflow == Spec => KeepsOrder
<1>1. Init => Workflow!Init
  BY DEF Init, Workflow!Init
<1> QED
  BY <1>1, WorkflowStep, Invariance, PTL DEF Spec, KeepsOrder, Workflow!Spec

-----------------------------------------------------------------------------
(* The same command over CDC. Its place, the commands carried out and the  *)
(* outcome have the names they have above; nothing above is used of them.  *)
CONSTANTS MaxRuns, AnswersLate
VARIABLES run, pc, todo, buffer

Cdc == INSTANCE SlaveCdc

(* How far the board is with the command that was written last.            *)
Before == executed = 1..(place - 1)
After  == executed = 1..place

Unasked    == todo = <<>> /\ buffer = <<>> /\ Before
Asked      == todo = <<[run |-> run, place |-> place]>> /\ buffer = <<>> /\ Before
CarriedOut == todo = <<>> /\ buffer = <<TRUE>> /\ After
Refused    == todo = <<>> /\ buffer = <<FALSE>> /\ Before

(* At most one command is without its answer, and it is the present one:   *)
(* of a run that was given up an answer may still come, of an earlier run  *)
(* none.                                                                   *)
CdcInv ==
  /\ run \in 1..MaxRuns
  /\ place \in 1..3
  /\ pc \in {"open", "write", "read", "done"}
  /\ pc = "open"  => place = 1 /\ todo = <<>> /\ Before
  /\ pc = "write" => Unasked
  /\ pc = "read"  => Asked \/ CarriedOut \/ Refused
  /\ pc = "done"  => \/ Asked
                     \/ todo = <<>> /\ (Before \/ After)
  /\ pc = "done" <=> outcome # "none"
  /\ outcome = "ok" => place = 3 /\ todo = <<>> /\ After
  /\ outcome \in {"none", "ok", "error"}

(* A workflow of three commands over CDC too. *)
LEMMA CdcCommands ==
  /\ Len(Cdc!Commands) = 3
  /\ Cdc!Places = 1..3
  /\ \A p \in 1..3 : Cdc!Commands[p] = "REBOOT" <=> p = 3
BY DEF Cdc!Commands, Cdc!Places

(* The first run finds a port nobody has written to. *)
LEMMA CdcStarts ==
  ASSUME MaxRuns \in Nat \ {0}, Cdc!Init
  PROVE  CdcInv
BY DEF Cdc!Init, CdcInv, Before


(* Of one item, the first is taken and none is left. *)
LEMMA OneItem ==
  ASSUME NEW x
  PROVE  Head(<<x>>) = x /\ Tail(<<x>>) = <<>>
OBVIOUS

(* Opening the port leaves nothing of an earlier run to be read. *)
LEMMA CdcOpens ==
  ASSUME CdcInv, Cdc!Open
  PROVE  CdcInv' /\ [Cdc!Workflow!Next]_(Cdc!Workflow!vars)
<1>1. CASE Cdc!Fail /\ UNCHANGED <<todo, buffer>>
  BY <1>1 DEF Cdc!Open, Cdc!Fail, CdcInv, Before, After, Asked, Cdc!Workflow!Next, Cdc!Workflow!Fail
<1>2. CASE ~(Cdc!Fail /\ UNCHANGED <<todo, buffer>>)
  BY <1>2 DEF Cdc!Open, Cdc!FlushReceiver, CdcInv, Before, Unasked, Cdc!Workflow!vars
<1> QED
  BY <1>1, <1>2

(* A command is written when no other is without its answer. *)
LEMMA CdcWrites ==
  ASSUME CdcInv, Cdc!Write
  PROVE  CdcInv' /\ [Cdc!Workflow!Next]_(Cdc!Workflow!vars)
<1>1. CASE Cdc!Fail /\ UNCHANGED todo
  BY <1>1 DEF Cdc!Write, Cdc!Fail, CdcInv, Unasked, Before, After, Asked, Cdc!Workflow!Next, Cdc!Workflow!Fail
<1>2. CASE ~(Cdc!Fail /\ UNCHANGED todo)
  <2>1. /\ todo' = Append(todo, [run |-> run, place |-> place])
        /\ pc' = "read" /\ pc = "write"
        /\ UNCHANGED <<run, place, executed, outcome, buffer>>
    BY <1>2 DEF Cdc!Write
  <2>2. Append(<<>>, [run |-> run, place |-> place]) = <<[run |-> run, place |-> place]>>
    OBVIOUS
  <2>3. Asked'
    BY <2>1, <2>2 DEF CdcInv, Unasked, Asked, Before
  <2> QED
    BY <2>1, <2>3 DEF CdcInv, Before, Cdc!Workflow!vars
<1> QED
  BY <1>1, <1>2

(* The answer read is the answer to the present command; after the last    *)
(* one every command has been carried out.                                 *)
LEMMA CdcReads ==
  ASSUME CdcInv, Cdc!Read
  PROVE  CdcInv' /\ [Cdc!Workflow!Next]_(Cdc!Workflow!vars)
<1>1. /\ pc = "read" /\ (CarriedOut \/ Refused)
      /\ buffer' = Tail(buffer) /\ UNCHANGED todo /\ outcome = "none"
  BY DEF Cdc!Read, CdcInv, Asked, CarriedOut, Refused
<1>2. todo' = <<>> /\ buffer' = <<>>
  BY <1>1, OneItem DEF CarriedOut, Refused
<1>3. CASE CarriedOut
  <2>1. Head(buffer) = TRUE
    BY <1>3, OneItem DEF CarriedOut
  <2>2. CASE place = 3
    <3>1. pc' = "done" /\ outcome' = "ok" /\ UNCHANGED <<place, run, executed>>
      BY <2>1, <2>2, CdcCommands DEF Cdc!Read, Cdc!CheckedReply, Cdc!Last
    <3>2. executed = 1..3
      BY <1>3, <2>2 DEF CarriedOut, After
    <3> QED
      BY <1>1, <1>2, <2>2, <3>1, <3>2, CdcCommands
      DEF CdcInv, Before, After, Asked, Cdc!Workflow!Next, Cdc!Workflow!Succeed
  <2>3. CASE place # 3
    <3>1. pc' = "write" /\ place' = place + 1 /\ UNCHANGED <<outcome, run, executed>>
      BY <2>1, <2>3, CdcCommands DEF Cdc!Read, Cdc!CheckedReply, Cdc!Last
    <3>2. place' \in 1..3 /\ place' - 1 = place
      BY <2>3, <3>1 DEF CdcInv
    <3>3. Unasked'
      BY <1>2, <1>3, <3>1, <3>2 DEF Unasked, Before, CarriedOut, After
    <3> QED
      BY <1>1, <3>1, <3>2, <3>3 DEF CdcInv, Cdc!Workflow!vars
  <2> QED
    BY <2>2, <2>3
<1>4. CASE Refused
  <2>1. Head(buffer) = FALSE
    BY <1>4, OneItem DEF Refused
  <2>2. pc' = "done" /\ outcome' = "error" /\ UNCHANGED <<run, place, executed>>
    BY <2>1 DEF Cdc!Read, Cdc!CheckedReply, Cdc!Fail
  <2> QED
    BY <1>1, <1>2, <1>4, <2>2
    DEF CdcInv, Before, After, Asked, Refused, Cdc!Workflow!Next, Cdc!Workflow!Fail
<1> QED
  BY <1>1, <1>3, <1>4

(* At the deadline the board still owes its answer. *)
LEMMA CdcTimesOut ==
  ASSUME CdcInv, Cdc!Timeout
  PROVE  CdcInv' /\ [Cdc!Workflow!Next]_(Cdc!Workflow!vars)
<1>1. pc = "read" /\ Asked
  BY DEF Cdc!Timeout, CdcInv, CarriedOut, Refused
<1>2. /\ pc' = "done" /\ outcome' = "error"
      /\ UNCHANGED <<run, place, executed, todo, buffer>>
  BY DEF Cdc!Timeout, Cdc!Fail
<1> QED
  BY <1>1, <1>2 DEF CdcInv, Before, After, Asked, Cdc!Workflow!Next, Cdc!Workflow!Fail

(* The command the board takes is the present one of the present run. *)
LEMMA CdcAnswers ==
  ASSUME CdcInv, Cdc!Answer
  PROVE  CdcInv' /\ [Cdc!Workflow!Next]_(Cdc!Workflow!vars)
<1>1. Asked /\ pc \in {"read", "done"} /\ UNCHANGED <<run, pc, place, outcome>>
  BY DEF Cdc!Answer, CdcInv, Unasked, CarriedOut, Refused
<1>2. /\ Head(todo) = [run |-> run, place |-> place]
      /\ todo' = <<>>
      /\ Append(buffer, TRUE) = <<TRUE>> /\ Append(buffer, FALSE) = <<FALSE>>
  BY <1>1 DEF Asked, Cdc!Answer
<1>3. outcome # "ok"
  BY <1>1 DEF CdcInv, Asked
<1>4. \/ buffer' = <<TRUE>> /\ executed' = executed \cup {place}
      \/ buffer' = <<FALSE>> /\ executed' = executed
  <2>1. Head(todo).run = run /\ Head(todo).place = place
    BY <1>2
  <2> QED
    BY <1>2, <2>1 DEF Cdc!Answer
<1>5. CASE buffer' = <<TRUE>> /\ executed' = executed \cup {place}
  <2>1. executed = 1..(place - 1) /\ executed' = 1..place
    BY <1>1, <1>5 DEF CdcInv, Asked, Before
  <2>2. CarriedOut' /\ After'
    BY <1>1, <1>2, <1>5, <2>1 DEF CarriedOut, After
  <2>3. Cdc!Workflow!Execute
    BY <1>1, <2>1, CdcCommands DEF CdcInv, Cdc!Workflow!Execute
  <2> QED
    BY <1>1, <1>3, <2>2, <2>3 DEF CdcInv, CarriedOut, Cdc!Workflow!Next
<1>6. CASE buffer' = <<FALSE>> /\ executed' = executed
  <2>1. Refused' /\ Before'
    BY <1>1, <1>2, <1>6 DEF Refused, Asked, Before
  <2> QED
    BY <1>1, <1>3, <1>6, <2>1 DEF CdcInv, Refused, Cdc!Workflow!vars
<1> QED
  BY <1>4, <1>5, <1>6

(* Another run begins when nothing is owed to this one. *)
LEMMA CdcRunsAgain ==
  ASSUME MaxRuns \in Nat \ {0}, AnswersLate = FALSE, CdcInv, Cdc!Again
  PROVE  CdcInv' /\ [Cdc!Workflow!Next]_(Cdc!Workflow!vars)
<1>1. /\ run' = run + 1 /\ run < MaxRuns
      /\ pc' = "open" /\ place' = 1 /\ executed' = {} /\ outcome' = "none"
      /\ todo = <<>> /\ UNCHANGED <<todo, buffer>>
      /\ outcome # "none"
  BY DEF Cdc!Again, CdcInv
<1> QED
  BY <1>1 DEF CdcInv, Before, Cdc!Workflow!Next, Cdc!Workflow!Again


(* A step over CDC is a step of the workflow or changes nothing of it. *)
LEMMA CdcStep ==
  ASSUME MaxRuns \in Nat \ {0}, AnswersLate = FALSE, CdcInv, [Cdc!Next]_(Cdc!vars)
  PROVE  CdcInv' /\ [Cdc!Workflow!Next]_(Cdc!Workflow!vars)
<1>1. CASE Cdc!Done \/ UNCHANGED Cdc!vars
  BY <1>1 DEF Cdc!Done, Cdc!vars, CdcInv, Before, After, Unasked, Asked, CarriedOut, Refused,
              Cdc!Workflow!vars
<1> QED
  BY <1>1, CdcOpens, CdcWrites, CdcReads, CdcTimesOut, CdcAnswers, CdcRunsAgain DEF Cdc!Next

(* If the board has answered all that one run asked before the next one    *)
(* begins, what is owed over CDC is the answer to the present command.     *)
THEOREM CdcInvariance ==
  ASSUME MaxRuns \in Nat \ {0}, AnswersLate = FALSE
  PROVE  Cdc!Spec => []CdcInv
<1>1. Cdc!Init => CdcInv
  BY CdcStarts
<1>2. CdcInv /\ [Cdc!Next]_(Cdc!vars) => CdcInv'
  BY CdcStep
<1> QED
  BY <1>1, <1>2, PTL DEF Cdc!Spec

(* SlaveCdc implements SlaveWorkflow, as long as no answer is later than   *)
(* the run that asked for it: the commands are carried out in order, none  *)
(* before the one in front of it, and exit code 0 means all of them.       *)
THEOREM CdcImplementsWorkflow ==
  ASSUME MaxRuns \in Nat \ {0}, AnswersLate = FALSE
  PROVE  Cdc!Spec => Cdc!KeepsOrder
<1>1. Cdc!Init => Cdc!Workflow!Init
  BY DEF Cdc!Init, Cdc!Workflow!Init
<1>2. CdcInv /\ [Cdc!Next]_(Cdc!vars) => [Cdc!Workflow!Next]_(Cdc!Workflow!vars)
  BY CdcStep
<1> QED
  BY <1>1, <1>2, CdcInvariance, PTL DEF Cdc!Spec, Cdc!KeepsOrder, Cdc!Workflow!Spec

(* So it is only to late answers that the promise of the README is lost,   *)
(* that a setting which could not be saved does not lead to a reboot: the  *)
(* run slave_cdc_late shows the loss with them.                            *)
THEOREM OnlyLateAnswersReboot ==
  ASSUME MaxRuns \in Nat \ {0}, AnswersLate = FALSE
  PROVE  Cdc!Spec => []Cdc!SaveFailurePreventsReboot
<1>1. CdcInv => Cdc!SaveFailurePreventsReboot
  <2> SUFFICES ASSUME CdcInv, 3 \in executed
               PROVE  2 \in executed
    BY DEF Cdc!SaveFailurePreventsReboot
  <2>1. place \in 1..3 /\ (Before \/ After)
    BY DEF CdcInv, Unasked, Asked, CarriedOut, Refused
  <2> QED
    BY <2>1 DEF Before, After
<1> QED
  BY <1>1, CdcInvariance, PTL

(* Late answers or not, every variable keeps its type. *)
THEOREM CdcTypeCorrect ==
  ASSUME MaxRuns \in Nat \ {0}
  PROVE  Cdc!Spec => []Cdc!TypeOK
<1>1. Cdc!Init => Cdc!TypeOK
  BY DEF Cdc!Init, Cdc!TypeOK, Cdc!Places, Cdc!Commands
<1>2. Cdc!TypeOK /\ [Cdc!Next]_(Cdc!vars) => Cdc!TypeOK'
  <2> SUFFICES ASSUME Cdc!TypeOK, [Cdc!Next]_(Cdc!vars)
               PROVE  Cdc!TypeOK'
    OBVIOUS
  <2> DEFINE Line == [run : 1..MaxRuns, place : 1..3]
  <2>0. /\ todo \in Seq(Line) /\ buffer \in Seq(BOOLEAN)
        /\ run \in 1..MaxRuns /\ place \in 1..3 /\ executed \subseteq 1..3
    BY CdcCommands DEF Cdc!TypeOK
  <2>1. CASE Cdc!Open
    <3>1. buffer' \in Seq(BOOLEAN)
      <4>1. buffer' = buffer \/ buffer' = <<>>
        BY <2>1 DEF Cdc!Open, Cdc!FlushReceiver
      <4>2. <<>> \in Seq(BOOLEAN)
        OBVIOUS
      <4> QED
        BY <2>0, <4>1, <4>2
    <3> QED
      BY <2>1, <3>1 DEF Cdc!Open, Cdc!Fail, Cdc!TypeOK
  <2>2. CASE Cdc!Write
    <3>1. [run |-> run, place |-> place] \in Line
      BY <2>0
    <3>2. Append(todo, [run |-> run, place |-> place]) \in Seq(Line)
      BY <2>0, <3>1
    <3> QED
      BY <2>2, <3>2, CdcCommands DEF Cdc!Write, Cdc!Fail, Cdc!TypeOK
  <2>3. CASE Cdc!Read
    <3>1. Tail(buffer) \in Seq(BOOLEAN)
      BY <2>0, <2>3 DEF Cdc!Read
    <3>2. place # 3 => place + 1 \in 1..3
      BY <2>0
    <3> QED
      BY <2>3, <3>1, <3>2, CdcCommands
      DEF Cdc!Read, Cdc!CheckedReply, Cdc!Last, Cdc!Fail, Cdc!TypeOK
  <2>4. CASE Cdc!Timeout
    BY <2>4 DEF Cdc!Timeout, Cdc!Fail, Cdc!TypeOK
  <2>5. CASE Cdc!Answer
    <3>0. todo # <<>>
      BY <2>5 DEF Cdc!Answer
    <3>1. Tail(todo) \in Seq(Line) /\ Head(todo) \in Line
      <4> HIDE DEF Line
      <4> QED
        BY <2>0, <3>0
    <3>2. Append(buffer, TRUE) \in Seq(BOOLEAN) /\ Append(buffer, FALSE) \in Seq(BOOLEAN)
      BY <2>0
    <3>3. buffer' \in Seq(BOOLEAN) /\ executed' \subseteq 1..3
      BY <2>0, <2>5, <3>1, <3>2 DEF Cdc!Answer
    <3> QED
      BY <2>5, <3>1, <3>3, CdcCommands DEF Cdc!Answer, Cdc!TypeOK
  <2>6. CASE Cdc!Again
    BY <2>6, CdcCommands DEF Cdc!Again, Cdc!TypeOK
  <2>7. CASE Cdc!Done \/ UNCHANGED Cdc!vars
    BY <2>7 DEF Cdc!Done, Cdc!vars, Cdc!TypeOK
  <2> QED
    BY <2>1, <2>2, <2>3, <2>4, <2>5, <2>6, <2>7 DEF Cdc!Next
<1> QED
  BY <1>1, <1>2, PTL DEF Cdc!Spec

=============================================================================
