---------------------------- MODULE OtaDownload ----------------------------
(***************************************************************************)
(* The one-click firmware download of the gateway: DownloadFirmware        *)
(* (src/cli/firmware_download_platform.cc) with the checks of              *)
(* src/cli/firmware_download.cc, against boards whose A/B bootloader is    *)
(* external: it installs a complete package in the other slot and starts   *)
(* it on trial, and the application confirms itself or is rolled back.     *)
(*                                                                         *)
(* The 40 s and 100 s deadlines are a number of polls. A board may lose    *)
(* its power, and a command may go unanswered after it was carried out.    *)
(*                                                                         *)
(* The volume is written to under a path, a mount point or a drive letter, *)
(* and what is mounted there may change at any time, also after the path   *)
(* was looked up and checked.                                              *)
(***************************************************************************)
EXTENDS Naturals

CONSTANTS
  Boards,         \* the gateways on this computer
  Target,         \* the one whose port the command line names
  Paths,          \* the mount points or drive letters a volume may have
  VersionLimit,   \* 0xfffffffe, the last version a package may have
  MaxPolls,       \* bound: polls before a deadline
  MaxPowerCuts    \* bound: power cuts in a behaviour

ASSUME ConstantsAssumption ==
  /\ Target \in Boards
  /\ VersionLimit \in Nat \ {0}
  /\ {MaxPolls, MaxPowerCuts} \subseteq Nat

VARIABLES
  board,      \* the state of each gateway
  mount,      \* the gateway whose volume was last mounted at each path, or none
  ports,      \* what FindPort meets: "one" port of the gateway, "several", or an "error"
  fileOk,     \* the file is a firmware LoadOtaFirmware accepts
  pc,         \* where DownloadFirmware is
  before,     \* the status read first
  found,      \* the path of the volume that was found
  polls,      \* polls made before the current deadline
  outcome,    \* none, ok (exit code 0), error
  remounted,  \* history: what is mounted at that path changed after the re-check
  powerCuts

hostVars == <<fileOk, pc, before, found, polls, outcome>>
envVars  == <<ports, powerCuts>>
vars == <<board, mount, remounted, hostVars, envVars>>

-----------------------------------------------------------------------------
PortStates == {"one", "several", "error"}
Slots     == {0, 1}
Idle      == 2            \* PENDING=0xffffffff
NoBoard   == "no board"
NoPath    == "no path"
Firmware  == {"old", "stale", "new"}
Image     == [firmware : Firmware, version : 0..VersionLimit]
Board     == [mode : {"app", "leaving", "boot", "received", "trial", "down"},
              slot : Slots, image : [Slots -> Image],
              confirmed : Slots, pending : Slots \cup {Idle}, ready : {0, 1}]
Status    == [slot : Slots, version : 0..VersionLimit,
              confirmed : Slots, pending : Slots \cup {Idle}, ready : {0, 1}]

NoStatus == [slot |-> 0, version |-> 0, confirmed |-> 0, pending |-> Idle, ready |-> 0]

\* The gateway may still be starting up, or be on trial with the image an
\* earlier update left in the other slot; another one is in its bootloader.
Init ==
  /\ \E v, w \in 0..VersionLimit, r \in {0, 1}, trial \in BOOLEAN :
       board = [b \in Boards |->
         [mode |-> IF b # Target THEN "boot" ELSE IF trial THEN "trial" ELSE "app",
          slot |-> IF b = Target /\ trial THEN 1 ELSE 0,
          image |-> [s \in Slots |-> IF s = 0 THEN [firmware |-> "old", version |-> v]
                                             ELSE [firmware |-> "stale", version |-> w]],
          confirmed |-> 0, pending |-> IF b = Target /\ trial THEN 1 ELSE Idle, ready |-> r]]
  /\ mount = [p \in Paths |-> NoBoard]
  /\ ports \in PortStates
  /\ fileOk \in BOOLEAN
  /\ pc = "load"
  /\ before = NoStatus
  /\ found = NoPath
  /\ polls = 0
  /\ outcome = "none"
  /\ remounted = FALSE
  /\ powerCuts = 0

-----------------------------------------------------------------------------
(* The boards. *)

StatusOf(b) ==
  [slot |-> board[b].slot, version |-> board[b].image[board[b].slot].version,
   confirmed |-> board[b].confirmed, pending |-> board[b].pending, ready |-> board[b].ready]

Running(b) == board[b].mode \in {"app", "trial"}

\* The bootloader starts the confirmed firmware.
Restarted(b) == [board[b] EXCEPT !.mode = "app", !.slot = board[b].confirmed, !.pending = Idle, !.ready = 0]

Installed(b) ==
  LET other == 1 - board[b].confirmed
  IN [board[b] EXCEPT !.mode = "trial", !.slot = other, !.pending = other, !.ready = 0,
        !.image[other] = [firmware |-> "new", version |-> before.version + 1]]

BoardStep(b) ==
  \/ board[b].mode = "leaving" /\ board' = [board EXCEPT ![b].mode = "boot"]
  \/ board[b].mode = "boot" /\ board' = [board EXCEPT ![b] = Restarted(b)]
  \/ board[b].mode = "received" /\ board' \in {[board EXCEPT ![b] = Installed(b)],
                                               [board EXCEPT ![b] = Restarted(b)]}
  \/ Running(b) /\ board[b].ready = 0 /\ board' = [board EXCEPT ![b].ready = 1]
  \/ /\ board[b].mode = "trial"
     /\ board[b].ready = 1
     /\ board' = [board EXCEPT ![b].mode = "app", ![b].confirmed = board[b].slot, ![b].pending = Idle]
  \/ board[b].mode = "trial" /\ board' = [board EXCEPT ![b] = Restarted(b)]
  \/ board[b].mode = "down" /\ board' = [board EXCEPT ![b] = Restarted(b)]

BoardSteps(b) == BoardStep(b) /\ UNCHANGED <<mount, remounted, hostVars, envVars>>

PowerCut(b) ==
  /\ board[b].mode # "down"
  /\ powerCuts < MaxPowerCuts
  /\ powerCuts' = powerCuts + 1
  /\ board' = [board EXCEPT ![b].mode = "down"]
  /\ UNCHANGED <<mount, remounted, hostVars, ports>>

\* The automounter, or the user: a volume appears at the path, or leaves it.
Remount(p) ==
  /\ \E b \in {c \in Boards : board[c].mode = "boot"} \cup {NoBoard} :
       mount[p] # b /\ mount' = [mount EXCEPT ![p] = b]
  /\ remounted' = (remounted \/ (pc = "write" /\ p = found))
  /\ UNCHANGED <<board, hostVars, envVars>>

-----------------------------------------------------------------------------
(* DownloadFirmware. A failed Require throws: the exit code is not 0.      *)

Fail ==
  /\ pc' = "done"
  /\ outcome' = "error"
  /\ UNCHANGED <<mount, fileOk, before, found, polls>>

LoadOtaFirmware ==
  /\ pc = "load"
  /\ IF fileOk
       THEN pc' = "status" /\ UNCHANGED <<mount, fileOk, before, found, polls, outcome>>
       ELSE Fail
  /\ UNCHANGED <<board, remounted, envVars>>

\* Mutation: the application answers, so it is taken as confirmed.
OtaReady(s) == s.ready = 1

OtaConfirmed(s) == s.ready = 1 /\ s.confirmed = s.slot /\ s.pending = Idle

VersionAvailable(s) == s.version < VersionLimit

\* OTA STATUS before anything is changed, and the package made from it.
ReadStatus ==
  /\ pc = "status"
  /\ \/ Fail
     \/ /\ Running(Target)
        /\ OtaConfirmed(StatusOf(Target))
        /\ VersionAvailable(StatusOf(Target))
        /\ before' = StatusOf(Target)
        /\ pc' = "enter"
        /\ UNCHANGED <<mount, fileOk, found, polls, outcome>>
  /\ UNCHANGED <<board, remounted, envVars>>

\* OTA ENTER: refused, or obeyed with the answer received or lost.
EnterOta ==
  /\ pc = "enter"
  /\ \/ Fail /\ UNCHANGED board
     \/ /\ Running(Target)
        /\ board' = [board EXCEPT ![Target].mode = "leaving"]
        /\ \/ Fail
           \/ pc' = "volume" /\ UNCHANGED <<mount, fileOk, before, found, polls, outcome>>
  /\ UNCHANGED <<remounted, envVars>>

\* The volume of a bootloader is mounted at the path.
Live(p) == mount[p] \in Boards /\ board[mount[p]].mode = "boot"

\* A mount matches by the UUID and the place of the gateway.
Matches(p) == Live(p) /\ mount[p] = Target

Volumes == {p \in Paths : Matches(p)}

\* Mutation: the deadline is never reached.
NoDeadline == FALSE

Deadline == polls = MaxPolls

\* The command itself may ask once for the volume to be mounted.
TryMount ==
  \/ UNCHANGED mount
  \/ \E p \in Paths : /\ mount[p] = NoBoard
                      /\ board[Target].mode = "boot"
                      /\ mount' = [mount EXCEPT ![p] = Target]

\* Several mounts that match are an error.
PollVolume ==
  /\ pc = "volume"
  /\ IF Deadline
       THEN Fail
       ELSE \/ /\ Volumes = {}
               /\ polls < MaxPolls
               /\ polls' = polls + 1
               /\ TryMount
               /\ UNCHANGED <<fileOk, pc, before, found, outcome>>
            \/ \E p \in Paths : /\ Volumes = {p}
                               /\ found' = p
                               /\ pc' = "recheck"
                               /\ polls' = 0
                               /\ UNCHANGED <<mount, fileOk, before, outcome>>
            \/ (\E p, q \in Volumes : p # q) /\ Fail
  /\ UNCHANGED <<board, remounted, envVars>>

\* Mutation: the volume is not looked for again before the write.
NoRecheck ==
  /\ pc = "recheck"
  /\ pc' = "write"
  /\ UNCHANGED <<board, mount, remounted, fileOk, before, found, polls, outcome, envVars>>

RecheckVolume ==
  /\ pc = "recheck"
  /\ IF Volumes = {found}
       THEN pc' = "write" /\ UNCHANGED <<mount, fileOk, before, found, polls, outcome>>
       ELSE Fail
  /\ UNCHANGED <<board, remounted, envVars>>

\* The file is opened under the path: whatever bootloader is mounted there now
\* gets the package, and without one the path may be a plain directory. The
\* write or the flush may fail before or after the package is complete.
WritePackage ==
  /\ pc = "write"
  /\ \/ Fail /\ UNCHANGED board
     \/ /\ board' = IF Live(found) THEN [board EXCEPT ![mount[found]].mode = "received"] ELSE board
        /\ \/ Fail
           \/ pc' = "confirm" /\ UNCHANGED <<mount, fileOk, before, found, polls, outcome>>
  /\ UNCHANGED <<remounted, envVars>>

\* Mutation: any confirmed firmware is a success.
AnyResult(after) == TRUE

CheckOtaResult(after) == after.slot = 1 - before.slot /\ after.version = before.version + 1

\* Mutation: a poll without an answer ends the wait.
KeepPollingOnce == Fail

KeepPolling ==
  /\ polls' = polls + 1
  /\ UNCHANGED <<mount, fileOk, pc, before, found, outcome>>

\* FindPort is not protected by the try around the command: several ports that
\* match, once the gateway is there, or an error of the directory end the wait.
FindPortThrows == ports = "error" \/ (ports = "several" /\ Running(Target))

\* Wait for the gateway to come back and confirm; a poll that finds no port, that
\* gets no answer, or that comes before the confirmation is no failure.
PollConfirmed ==
  /\ pc = "confirm"
  /\ IF Deadline
       THEN Fail
       ELSE /\ polls < MaxPolls
            /\ \/ KeepPolling
               \/ FindPortThrows /\ Fail
               \/ /\ Running(Target)
                  /\ OtaConfirmed(StatusOf(Target))
                  /\ IF CheckOtaResult(StatusOf(Target))
                       THEN /\ pc' = "done"
                            /\ outcome' = "ok"
                            /\ UNCHANGED <<mount, fileOk, before, found, polls>>
                       ELSE Fail
  /\ UNCHANGED <<board, remounted, envVars>>

-----------------------------------------------------------------------------
Download ==
  \/ LoadOtaFirmware \/ ReadStatus \/ EnterOta \/ PollVolume
  \/ RecheckVolume \/ WritePackage \/ PollConfirmed

Environment ==
  \/ \E b \in Boards : BoardSteps(b) \/ PowerCut(b)
  \/ \E p \in Paths : Remount(p)

Done == pc = "done" /\ UNCHANGED vars

Next == Download \/ Environment \/ Done

\* The command runs; nothing is assumed of the boards.
Spec == Init /\ [][Next]_vars /\ WF_vars(Download)

-----------------------------------------------------------------------------
(* Every variable holds a value of its C++ type, no version reaching the   *)
(* value that stands for no pending slot.                                  *)
TypeOK ==
  /\ board \in [Boards -> Board]
  /\ mount \in [Paths -> Boards \cup {NoBoard}]
  /\ ports \in PortStates
  /\ fileOk \in BOOLEAN
  /\ pc \in {"load", "status", "enter", "volume", "recheck", "write", "confirm", "done"}
  /\ before \in Status
  /\ found \in Paths \cup {NoPath}
  /\ polls \in 0..MaxPolls
  /\ outcome \in {"none", "ok", "error"}
  /\ remounted \in BOOLEAN
  /\ powerCuts \in 0..MaxPowerCuts

GotPackage(b) ==
  \/ board[b].mode = "received"
  \/ \E s \in Slots : board[b].image[s].firmware = "new"

(* Another gateway than the one named on the command line gets the package *)
(* only if its volume took the place of the right one after the re-check,  *)
(* in the gap the code leaves before it opens the file: an exchange while  *)
(* the command polled, or between the poll and the re-check, is noticed.   *)
OnlyTargetIsWritten ==
  \A b \in Boards \ {Target} : GotPackage(b) => remounted

(* The gateway is asked to reboot only with a good file, from a confirmed  *)
(* firmware, and with a version left for the package: what can be checked  *)
(* before is checked before.                                               *)
RebootsOnlyIfInstallable ==
  board[Target].mode = "leaving" =>
    /\ fileOk
    /\ before.confirmed = before.slot /\ before.pending = Idle
    /\ before.version + 1 <= VersionLimit

(* Once the package is flushed, the command fails only at the deadline,    *)
(* for a confirmed firmware that is not the new one, or because the ports  *)
(* of the gateway cannot be told apart or listed; a poll that is not       *)
(* answered, and a firmware still on trial, are no failure.                *)
NoEarlyGiveUp ==
  [][(pc = "confirm" /\ outcome' = "error") =>
       \/ polls = MaxPolls
       \/ ports = "error"
       \/ ports = "several" /\ Running(Target)
       \/ /\ Running(Target)
          /\ board[Target].pending = Idle
          /\ board[Target].image[board[Target].slot].firmware # "new"]_vars

(* The command comes to an end whatever the gateway does. *)
DownloadEnds == <>(outcome # "none")

(* Exit code 0 only for the new firmware, confirmed in the other slot.     *)
Promise == INSTANCE OtaPromise WITH
  running <- IF board[Target].image[board[Target].confirmed].firmware = "new" THEN "new" ELSE "before",
  outcome <- outcome

KeepsPromise == Promise!Spec

=============================================================================
