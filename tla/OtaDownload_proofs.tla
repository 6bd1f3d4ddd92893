------------------------- MODULE OtaDownload_proofs -------------------------
(***************************************************************************)
(* Machine-checked proofs about OtaDownload, for every set of gateways,    *)
(* version limit, deadline and number of power cuts: the command keeps     *)
(* OtaPromise and writes to another gateway only if the volumes were       *)
(* exchanged after the re-check.                                           *)
(*                                                                         *)
(* The argument follows the confirmed firmware of the target. Until the    *)
(* package is flushed no new image exists; from ReadStatus on, a confirmed *)
(* firmware that is not the new one sits in the slot that was read; and    *)
(* what is on trial then is the new image. So a confirmed firmware in the  *)
(* other slot is the new one.                                              *)
(***************************************************************************)
EXTENDS OtaDownload, TLAPS

ConfirmedFirmware == board[Target].image[board[Target].confirmed].firmware

InUpdate == pc \in {"enter", "volume", "recheck", "write", "confirm"}

(* The path to write to was found, and once it is checked the volume of    *)
(* the target is mounted there, unless it was exchanged since.             *)
PathIsChecked ==
  /\ pc \in {"recheck", "write"} => found \in Paths
  /\ (pc = "write" /\ ~remounted) => mount[found] = Target

(* No new image exists before the package is written. *)
NothingWrittenYet ==
  pc \notin {"confirm", "done"} =>
    /\ board[Target].mode # "received"
    /\ \A s \in Slots : board[Target].image[s].firmware # "new"

(* An image received or on trial is not confirmed yet, and nothing else    *)
(* that is new is.                                                         *)
NotConfirmedYet ==
  board[Target].mode \in {"received", "trial"} => ConfirmedFirmware # "new"

(* A confirmed firmware that is not the new one is where it was read. *)
OldIsWhereItWas ==
  (InUpdate /\ ConfirmedFirmware # "new") => board[Target].confirmed = before.slot

(* During the update nothing is on trial but the new image. *)
TrialIsNew ==
  board[Target].mode = "trial" =>
    /\ board[Target].pending = board[Target].slot
    /\ InUpdate => /\ pc = "confirm"
                   /\ board[Target].image[board[Target].slot].firmware = "new"

(* A new image is the package of this update, in the slot not read. *)
NewIsThePackage ==
  pc = "confirm" =>
    \A s \in Slots : board[Target].image[s].firmware = "new" =>
      s # before.slot /\ board[Target].image[s].version = before.version + 1

(* What was checked before the reboot holds as long as it matters. *)
Checked ==
  /\ before.version < VersionLimit
  /\ pc \notin {"load", "done"} => fileOk
  /\ InUpdate => before.confirmed = before.slot /\ before.pending = Idle
  /\ board[Target].mode = "leaving" => pc \notin {"load", "status"}

OutcomeAtTheEnd == outcome = "none" <=> pc # "done"

IInv ==
  /\ TypeOK
  /\ OnlyTargetIsWritten
  /\ RebootsOnlyIfInstallable
  /\ PathIsChecked
  /\ NothingWrittenYet
  /\ NotConfirmedYet
  /\ OldIsWhereItWas
  /\ TrialIsNew
  /\ NewIsThePackage
  /\ Checked
  /\ OutcomeAtTheEnd

-----------------------------------------------------------------------------
(* What a step of a board does to its record: it starts, stops or answers; *)
(* it installs; or it confirms.                                            *)

SameImages(b, r) == r.image = board[b].image /\ r.confirmed = board[b].confirmed

Carries(b, r) ==
  /\ SameImages(b, r)
  /\ \/ r.mode \in {"app", "boot", "down"}
     \/ r.mode = board[b].mode /\ r.slot = board[b].slot /\ r.pending = board[b].pending

Installs(b, r) ==
  /\ board[b].mode = "received"
  /\ r.mode = "trial"
  /\ r.confirmed = board[b].confirmed
  /\ r.slot = 1 - board[b].confirmed
  /\ r.pending = r.slot
  /\ r.image[r.confirmed] = board[b].image[r.confirmed]
  /\ r.image[r.slot].firmware = "new"
  /\ r.image[r.slot].version = before.version + 1

Confirms(b, r) ==
  /\ board[b].mode = "trial"
  /\ r.mode = "app"
  /\ r.image = board[b].image
  /\ r.confirmed = board[b].slot

(* A restarted board runs the confirmed firmware, its images untouched. *)
LEMMA RestartedCarries ==
  ASSUME TypeOK, NEW b \in Boards
  PROVE  Restarted(b) \in Board /\ Carries(b, Restarted(b))
<1>1. board[b] \in Board
  BY DEF TypeOK
<1> QED BY <1>1 DEF Board, Restarted, Carries, SameImages, Idle, Slots

(* An installed package is on trial in the slot that is not confirmed. *)
LEMMA InstalledInstalls ==
  ASSUME TypeOK, before.version < VersionLimit, NEW b \in Boards, board[b].mode = "received"
  PROVE  Installed(b) \in Board /\ Installs(b, Installed(b))
<1> DEFINE other == 1 - board[b].confirmed
           image == [firmware |-> "new", version |-> before.version + 1]
<1>1. board[b] \in Board /\ before \in Status
  BY DEF TypeOK
<1>2. board[b].confirmed \in Slots /\ board[b].image \in [Slots -> Image]
  BY <1>1 DEF Board
<1>3. other \in Slots /\ other # board[b].confirmed
  BY <1>2 DEF Slots
<1>4. image \in Image /\ image.firmware = "new" /\ image.version = before.version + 1
  BY <1>1, ConstantsAssumption DEF Image, Firmware, Status
<1>5. Installed(b) = [board[b] EXCEPT !.mode = "trial", !.slot = other, !.pending = other,
                                      !.ready = 0, !.image = [board[b].image EXCEPT ![other] = image]]
  BY <1>1 DEF Installed, Board
<1> HIDE DEF other, image
<1>6. [board[b].image EXCEPT ![other] = image] \in [Slots -> Image]
  BY <1>2, <1>4
<1>7. Installed(b) \in Board
  BY <1>1, <1>2, <1>3, <1>5, <1>6 DEF Board
<1>8. /\ Installed(b).mode = "trial"
      /\ Installed(b).confirmed = board[b].confirmed
      /\ Installed(b).slot = other
      /\ Installed(b).pending = other
      /\ Installed(b).image = [board[b].image EXCEPT ![other] = image]
  BY <1>1, <1>5 DEF Board
<1>9. Installs(b, Installed(b))
  BY <1>2, <1>3, <1>4, <1>8 DEF Installs, other
<1> QED BY <1>7, <1>9

(* Every step of a board is one of the three. *)
LEMMA BoardStepCases ==
  ASSUME TypeOK, before.version < VersionLimit, NEW b \in Boards, BoardStep(b)
  PROVE  \E r \in Board : /\ board' = [board EXCEPT ![b] = r]
                          /\ Carries(b, r) \/ Installs(b, r) \/ Confirms(b, r)
<1>1. board[b] \in Board /\ board \in [Boards -> Board]
  BY DEF TypeOK
<1>2. CASE board[b].mode = "leaving" /\ board' = [board EXCEPT ![b].mode = "boot"]
  <2>1. [board[b] EXCEPT !.mode = "boot"] \in Board /\ Carries(b, [board[b] EXCEPT !.mode = "boot"])
    BY <1>1 DEF Board, Carries, SameImages
  <2> QED BY <1>1, <1>2, <2>1
<1>3. CASE board' = [board EXCEPT ![b] = Restarted(b)]
  BY <1>3, RestartedCarries
<1>4. CASE board[b].mode = "received" /\ board' = [board EXCEPT ![b] = Installed(b)]
  BY <1>4, InstalledInstalls
<1>5. CASE board[b].ready = 0 /\ board' = [board EXCEPT ![b].ready = 1]
  <2>1. [board[b] EXCEPT !.ready = 1] \in Board /\ Carries(b, [board[b] EXCEPT !.ready = 1])
    BY <1>1 DEF Board, Carries, SameImages
  <2> QED BY <1>1, <1>5, <2>1
<1>6. CASE /\ board[b].mode = "trial"
           /\ board' = [board EXCEPT ![b].mode = "app", ![b].confirmed = board[b].slot, ![b].pending = Idle]
  <2> DEFINE r == [board[b] EXCEPT !.mode = "app", !.confirmed = board[b].slot, !.pending = Idle]
  <2>1. r \in Board /\ Confirms(b, r)
    BY <1>1, <1>6 DEF Board, Confirms, Idle
  <2>2. board' = [board EXCEPT ![b] = r]
    BY <1>1, <1>6
  <2> QED BY <2>1, <2>2
<1> QED BY <1>2, <1>3, <1>4, <1>5, <1>6 DEF BoardStep

-----------------------------------------------------------------------------
(* The initial states satisfy the invariant: no new image exists. *)
LEMMA InitIInv == Init => IInv
<1> SUFFICES ASSUME Init
             PROVE  IInv
  OBVIOUS
<1>1. PICK v, w \in 0..VersionLimit, r \in {0, 1}, trial \in BOOLEAN :
        board = [b \in Boards |->
          [mode |-> IF b # Target THEN "boot" ELSE IF trial THEN "trial" ELSE "app",
           slot |-> IF b = Target /\ trial THEN 1 ELSE 0,
           image |-> [s \in Slots |-> IF s = 0 THEN [firmware |-> "old", version |-> v]
                                              ELSE [firmware |-> "stale", version |-> w]],
           confirmed |-> 0, pending |-> IF b = Target /\ trial THEN 1 ELSE Idle, ready |-> r]]
  BY DEF Init
<1>2. ASSUME NEW b \in Boards
      PROVE  /\ board[b] \in Board
             /\ board[b].mode = IF b # Target THEN "boot" ELSE IF trial THEN "trial" ELSE "app"
             /\ board[b].confirmed = 0
             /\ \A s \in Slots : board[b].image[s].firmware # "new"
             /\ board[b].mode = "trial" => board[b].pending = 1 /\ board[b].slot = 1
  <2> DEFINE image == [s \in Slots |-> IF s = 0 THEN [firmware |-> "old", version |-> v]
                                               ELSE [firmware |-> "stale", version |-> w]]
  <2>1. image \in [Slots -> Image] /\ \A s \in Slots : image[s].firmware # "new"
    BY DEF Image, Firmware, Slots
  <2>2. board[b] = [mode |-> IF b # Target THEN "boot" ELSE IF trial THEN "trial" ELSE "app",
                    slot |-> IF b = Target /\ trial THEN 1 ELSE 0, image |-> image,
                    confirmed |-> 0, pending |-> IF b = Target /\ trial THEN 1 ELSE Idle, ready |-> r]
    BY <1>1, <1>2
  <2> HIDE DEF image
  <2> QED BY <2>1, <2>2 DEF Board, Slots, Idle
<1>3. TypeOK
  <2>1. board \in [Boards -> Board]
    BY <1>1, <1>2
  <2>2. before \in Status
    <3>1. 0 \in 0..VersionLimit
      BY ConstantsAssumption
    <3> QED BY <3>1 DEF Init, NoStatus, Status, Slots, Idle
  <2>3. fileOk \in BOOLEAN
    BY DEF Init
  <2>4. mount \in [Paths -> Boards \cup {NoBoard}] /\ found \in Paths \cup {NoPath}
    BY DEF Init
  <2>5. ports \in PortStates /\ remounted \in BOOLEAN /\ pc = "load" /\ outcome = "none"
    BY DEF Init
  <2>6. polls \in 0..MaxPolls /\ powerCuts \in 0..MaxPowerCuts
    BY ConstantsAssumption DEF Init
  <2> QED BY <2>1, <2>2, <2>3, <2>4, <2>5, <2>6 DEF TypeOK
<1>4. Target \in Boards /\ 0 \in Slots /\ pc = "load" /\ outcome = "none"
  BY ConstantsAssumption DEF Init, Slots
<1>5. OnlyTargetIsWritten
  <2> SUFFICES ASSUME NEW b \in Boards \ {Target}
               PROVE  ~GotPackage(b)
    BY DEF OnlyTargetIsWritten
  <2> QED BY <1>2 DEF GotPackage
<1>6. RebootsOnlyIfInstallable
  BY <1>2, <1>4 DEF RebootsOnlyIfInstallable
<1>7. PathIsChecked /\ NothingWrittenYet /\ OldIsWhereItWas /\ NewIsThePackage /\ OutcomeAtTheEnd
  BY <1>2, <1>4 DEF PathIsChecked, NewIsThePackage, NothingWrittenYet, OldIsWhereItWas, OutcomeAtTheEnd, InUpdate
<1>8. NotConfirmedYet /\ TrialIsNew
  BY <1>2, <1>4 DEF NotConfirmedYet, TrialIsNew, ConfirmedFirmware, InUpdate
<1>9. Checked
  BY <1>2, <1>4, ConstantsAssumption DEF Checked, InUpdate, Init, NoStatus
<1> QED BY <1>3, <1>5, <1>6, <1>7, <1>8, <1>9 DEF IInv

-----------------------------------------------------------------------------
(* A step of the environment changes one board and leaves the host alone. *)
LEMMA EnvironmentChanges ==
  ASSUME IInv, NEW b \in Boards, BoardSteps(b) \/ PowerCut(b)
  PROVE  /\ \E r \in Board : /\ board' = [board EXCEPT ![b] = r]
                             /\ Carries(b, r) \/ Installs(b, r) \/ Confirms(b, r)
         /\ UNCHANGED <<mount, remounted, ports, hostVars>>
         /\ powerCuts' \in 0..MaxPowerCuts
<1>1. TypeOK /\ before.version < VersionLimit
  BY DEF IInv, Checked
<1>2. CASE BoardSteps(b)
  BY <1>1, <1>2, BoardStepCases DEF BoardSteps, TypeOK, envVars
<1>3. CASE PowerCut(b)
  <2>1. board[b] \in Board
    BY <1>1 DEF TypeOK
  <2> DEFINE r == [board[b] EXCEPT !.mode = "down"]
  <2>2. r \in Board /\ Carries(b, r)
    BY <2>1 DEF Board, Carries, SameImages
  <2>3. board' = [board EXCEPT ![b] = r]
    BY <1>1, <1>3 DEF PowerCut, TypeOK
  <2>4. powerCuts' \in 0..MaxPowerCuts
    BY <1>1, <1>3, ConstantsAssumption DEF PowerCut, TypeOK
  <2> QED BY <1>3, <2>2, <2>3, <2>4 DEF PowerCut
<1> QED BY <1>2, <1>3

(* The environment preserves the invariant, and a firmware that becomes    *)
(* confirmed during it is never an older one replacing the new one.        *)
LEMMA EnvironmentStep ==
  ASSUME IInv, NEW b \in Boards, BoardSteps(b) \/ PowerCut(b)
  PROVE  IInv' /\ (ConfirmedFirmware = "new" => ConfirmedFirmware' = "new")
<1>1. PICK r \in Board : /\ board' = [board EXCEPT ![b] = r]
                         /\ Carries(b, r) \/ Installs(b, r) \/ Confirms(b, r)
  BY EnvironmentChanges
<1>2. /\ UNCHANGED <<mount, remounted, ports, fileOk, pc, before, found, polls, outcome>>
      /\ powerCuts' \in 0..MaxPowerCuts
  BY EnvironmentChanges DEF hostVars
<1>3. /\ board \in [Boards -> Board]
      /\ Target \in Boards
      /\ \A c \in Boards : /\ board[c].confirmed \in Slots
                           /\ board[c].slot \in Slots
                           /\ board[c].image \in [Slots -> Image]
  BY ConstantsAssumption DEF IInv, TypeOK, Board
<1>4. /\ board' \in [Boards -> Board]
      /\ \A c \in Boards : board'[c] = IF c = b THEN r ELSE board[c]
  BY <1>1, <1>3
<1>5. /\ r.confirmed \in Slots
      /\ r.slot \in Slots
      /\ r.image \in [Slots -> Image]
  BY DEF Board
<1>6. TypeOK'
  BY <1>2, <1>4 DEF IInv, TypeOK
<1>7. OnlyTargetIsWritten'
  BY <1>1, <1>2, <1>3, <1>4, <1>5
     DEF IInv, OnlyTargetIsWritten, GotPackage, Carries, SameImages, Installs, Confirms
<1>8. RebootsOnlyIfInstallable' /\ Checked' /\ PathIsChecked' /\ OutcomeAtTheEnd'
  BY <1>1, <1>2, <1>3, <1>4
     DEF IInv, RebootsOnlyIfInstallable, Checked, PathIsChecked, OutcomeAtTheEnd, InUpdate,
         Carries, Installs, Confirms
<1>9. CASE b # Target
  <2>1. board'[Target] = board[Target]
    BY <1>3, <1>4, <1>9
  <2> QED BY <1>2, <1>6, <1>7, <1>8, <2>1
          DEF IInv, NothingWrittenYet, NotConfirmedYet, OldIsWhereItWas, TrialIsNew,
              NewIsThePackage, ConfirmedFirmware, InUpdate
<1>10. CASE b = Target
  <2>1. board'[Target] = r
    BY <1>3, <1>4, <1>10
  <2>2. NothingWrittenYet'
    BY <1>1, <1>2, <1>3, <1>10, <2>1
       DEF IInv, NothingWrittenYet, TrialIsNew, Carries, SameImages, Installs, Confirms
  <2>3. NotConfirmedYet'
    BY <1>1, <1>10, <2>1
       DEF IInv, NotConfirmedYet, ConfirmedFirmware, Carries, SameImages, Installs, Confirms
  <2>4. OldIsWhereItWas'
    BY <1>1, <1>2, <1>10, <2>1
       DEF IInv, OldIsWhereItWas, TrialIsNew, ConfirmedFirmware, InUpdate,
           Carries, SameImages, Installs, Confirms
  <2>5. TrialIsNew'
    BY <1>1, <1>2, <1>10, <2>1
       DEF IInv, TrialIsNew, NothingWrittenYet, InUpdate, Carries, SameImages, Installs, Confirms
  <2>6. ConfirmedFirmware = "new" => ConfirmedFirmware' = "new"
    BY <1>1, <1>10, <2>1
       DEF IInv, NotConfirmedYet, ConfirmedFirmware, Carries, SameImages, Installs, Confirms
  <2>7. NewIsThePackage'
    <3> SUFFICES ASSUME pc' = "confirm", NEW s \in Slots, r.image[s].firmware = "new"
                 PROVE  s # before.slot /\ r.image[s].version = before.version + 1
      BY <1>2, <2>1 DEF NewIsThePackage
    <3>1. CASE r.image = board[Target].image
      BY <1>2, <3>1 DEF IInv, NewIsThePackage
    <3>2. CASE Installs(b, r)
      <4>1. r.confirmed = board[Target].confirmed /\ board[Target].mode = "received"
        BY <1>10, <3>2 DEF Installs
      <4>2. ConfirmedFirmware # "new"
        BY <4>1 DEF IInv, NotConfirmedYet
      <4>3. r.confirmed = before.slot
        BY <1>2, <4>1, <4>2 DEF IInv, OldIsWhereItWas, InUpdate
      <4>4. r.image[r.confirmed].firmware # "new"
        BY <1>10, <3>2, <4>1, <4>2 DEF Installs, ConfirmedFirmware
      <4>5. s = r.slot
        BY <1>5, <3>2, <4>4 DEF Installs, Slots
      <4> QED BY <3>2, <4>3, <4>4, <4>5 DEF Installs
    <3> QED BY <1>1, <1>10, <3>1, <3>2 DEF Carries, SameImages, Confirms
  <2> QED BY <1>6, <1>7, <1>8, <2>2, <2>3, <2>4, <2>5, <2>6, <2>7 DEF IInv
<1> QED BY <1>9, <1>10

-----------------------------------------------------------------------------
(* What is mounted where changes nothing but the certainty of the check. *)
LEMMA RemountStep ==
  ASSUME IInv, NEW p \in Paths, Remount(p)
  PROVE  IInv' /\ UNCHANGED <<board, outcome>>
<1>1. UNCHANGED <<board, ports, fileOk, pc, before, found, polls, outcome, powerCuts>>
  BY DEF Remount, hostVars, envVars
<1>2. PICK b \in Boards \cup {NoBoard} : mount' = [mount EXCEPT ![p] = b]
  BY DEF Remount
<1>3. TypeOK'
  BY <1>1, <1>2 DEF IInv, TypeOK, Remount
<1>4. OnlyTargetIsWritten'
  BY <1>1 DEF IInv, OnlyTargetIsWritten, GotPackage, Remount
<1>5. PathIsChecked'
  <2>1. \A q \in Paths : q # p => mount'[q] = mount[q]
    BY <1>2 DEF IInv, TypeOK
  <2>2. (pc' = "write" /\ ~remounted') => pc = "write" /\ ~remounted /\ found # p
    BY <1>1 DEF Remount
  <2> QED BY <1>1, <2>1, <2>2 DEF IInv, PathIsChecked
<1> QED
  BY <1>1, <1>3, <1>4, <1>5
     DEF IInv, RebootsOnlyIfInstallable, NothingWrittenYet, NotConfirmedYet, OldIsWhereItWas,
         TrialIsNew, NewIsThePackage, Checked, OutcomeAtTheEnd, ConfirmedFirmware, InUpdate

(* A failed requirement ends the command and touches nothing else. *)
LEMMA FailStep ==
  ASSUME IInv, Fail, UNCHANGED <<board, remounted, envVars>>
  PROVE  IInv'
<1>1. TypeOK'
  BY DEF IInv, TypeOK, Fail, envVars
<1>2. UNCHANGED <<board, mount, remounted, ports, fileOk, before, found>> /\ pc' = "done" /\ outcome' = "error"
  BY DEF Fail, envVars
<1> QED
  BY <1>1, <1>2
     DEF IInv, OnlyTargetIsWritten, RebootsOnlyIfInstallable, PathIsChecked, NothingWrittenYet,
         NotConfirmedYet, OldIsWhereItWas, TrialIsNew, NewIsThePackage, Checked, OutcomeAtTheEnd,
         ConfirmedFirmware, InUpdate, GotPackage

(* The steps of the command that only read the boards. *)
LEMMA ReadingStep ==
  ASSUME IInv, LoadOtaFirmware \/ ReadStatus \/ PollVolume \/ RecheckVolume
  PROVE  IInv'
<1>1. CASE Fail /\ UNCHANGED <<board, remounted, envVars>>
  BY <1>1, FailStep
<1>2. CASE pc = "load" /\ fileOk /\ pc' = "status"
           /\ UNCHANGED <<board, mount, remounted, ports, fileOk, before, found, polls, outcome, powerCuts>>
  <2>1. TypeOK'
    BY <1>2 DEF IInv, TypeOK
  <2> QED
    BY <1>2, <2>1
       DEF IInv, OnlyTargetIsWritten, RebootsOnlyIfInstallable, PathIsChecked, NothingWrittenYet,
           NotConfirmedYet, OldIsWhereItWas, TrialIsNew, NewIsThePackage, Checked, OutcomeAtTheEnd,
           ConfirmedFirmware, InUpdate, GotPackage
<1>3. CASE /\ pc = "status"
           /\ Running(Target)
           /\ OtaConfirmed(StatusOf(Target))
           /\ VersionAvailable(StatusOf(Target))
           /\ before' = StatusOf(Target)
           /\ pc' = "enter"
           /\ UNCHANGED <<board, mount, remounted, ports, fileOk, found, polls, outcome, powerCuts>>
  <2>1. board[Target] \in Board
    BY ConstantsAssumption DEF IInv, TypeOK
  <2>2. before' \in Status
    BY <1>3, <2>1 DEF StatusOf, Status, Board, Image
  <2>3. TypeOK'
    BY <1>3, <2>2 DEF IInv, TypeOK
  <2>4. /\ before'.slot = board[Target].slot
        /\ before'.slot = board[Target].confirmed
        /\ before'.confirmed = before'.slot
        /\ before'.pending = Idle
        /\ board[Target].pending = Idle
        /\ before'.version < VersionLimit
    BY <1>3 DEF StatusOf, OtaConfirmed, VersionAvailable
  <2>5. board[Target].mode # "trial" /\ board[Target].mode # "leaving"
    BY <1>3, <2>1, <2>4 DEF IInv, TrialIsNew, Running, Board, Slots, Idle
  <2>6. NothingWrittenYet' /\ TrialIsNew' /\ OldIsWhereItWas'
    BY <1>3, <2>4, <2>5
       DEF IInv, NothingWrittenYet, TrialIsNew, OldIsWhereItWas, ConfirmedFirmware
  <2>7. Checked' /\ RebootsOnlyIfInstallable'
    BY <1>3, <2>4, <2>5 DEF IInv, Checked, RebootsOnlyIfInstallable
  <2> QED
    BY <1>3, <2>3, <2>6, <2>7
       DEF IInv, OnlyTargetIsWritten, GotPackage, PathIsChecked, NotConfirmedYet, NewIsThePackage,
           OutcomeAtTheEnd, ConfirmedFirmware
<1>4. CASE /\ pc = "volume" /\ polls < MaxPolls /\ polls' = polls + 1
           /\ TryMount
           /\ UNCHANGED <<board, remounted, ports, fileOk, pc, before, found, outcome, powerCuts>>
  <2>1. TypeOK'
    <3>1. mount' \in [Paths -> Boards \cup {NoBoard}]
      BY <1>4, ConstantsAssumption DEF IInv, TypeOK, TryMount
    <3> QED BY <1>4, <3>1, ConstantsAssumption DEF IInv, TypeOK
  <2> QED
    BY <1>4, <2>1
       DEF IInv, OnlyTargetIsWritten, RebootsOnlyIfInstallable, PathIsChecked, NothingWrittenYet,
           NotConfirmedYet, OldIsWhereItWas, TrialIsNew, NewIsThePackage, Checked, OutcomeAtTheEnd,
           ConfirmedFirmware, InUpdate, GotPackage
<1>5. CASE /\ pc = "volume" /\ found' \in Paths /\ pc' = "recheck" /\ polls' = 0
           /\ UNCHANGED <<board, mount, remounted, ports, fileOk, before, outcome, powerCuts>>
  <2>1. TypeOK'
    BY <1>5, ConstantsAssumption DEF IInv, TypeOK
  <2> QED
    BY <1>5, <2>1
       DEF IInv, OnlyTargetIsWritten, RebootsOnlyIfInstallable, PathIsChecked, NothingWrittenYet,
           NotConfirmedYet, OldIsWhereItWas, TrialIsNew, NewIsThePackage, Checked, OutcomeAtTheEnd,
           ConfirmedFirmware, InUpdate, GotPackage
<1>6. CASE /\ pc = "recheck" /\ pc' = "write" /\ Volumes = {found}
           /\ UNCHANGED <<board, mount, remounted, ports, fileOk, before, found, polls, outcome, powerCuts>>
  <2>1. TypeOK'
    BY <1>6 DEF IInv, TypeOK
  <2>2. mount[found] = Target
    <3>1. found \in Volumes
      BY <1>6
    <3> QED BY <3>1 DEF Volumes, Matches
  <2> QED
    BY <1>6, <2>1, <2>2
       DEF IInv, OnlyTargetIsWritten, RebootsOnlyIfInstallable, PathIsChecked, NothingWrittenYet,
           NotConfirmedYet, OldIsWhereItWas, TrialIsNew, NewIsThePackage, Checked, OutcomeAtTheEnd,
           ConfirmedFirmware, InUpdate, GotPackage
<1>7. CASE LoadOtaFirmware
  BY <1>1, <1>2, <1>7 DEF LoadOtaFirmware, envVars
<1>8. CASE ReadStatus
  BY <1>1, <1>3, <1>8 DEF ReadStatus, envVars
<1>9. CASE PollVolume
  BY <1>1, <1>4, <1>5, <1>9 DEF PollVolume, envVars
<1>10. CASE RecheckVolume
  BY <1>1, <1>6, <1>10 DEF RecheckVolume, envVars
<1> QED BY <1>7, <1>8, <1>9, <1>10

(* A request that makes the target leave its mode for one that is not      *)
(* trial touches no image of it; a package written elsewhere, after the    *)
(* volumes were exchanged, does not touch the target at all.               *)
LEMMA RequestStep ==
  ASSUME IInv, EnterOta \/ WritePackage
  PROVE  IInv' /\ ConfirmedFirmware' = ConfirmedFirmware
<1>1. board \in [Boards -> Board] /\ Target \in Boards /\ board[Target] \in Board
  BY ConstantsAssumption DEF IInv, TypeOK
<1>2. CASE Fail /\ UNCHANGED <<board, remounted, envVars>>
  BY <1>2, FailStep DEF ConfirmedFirmware
<1>3. CASE /\ pc = "enter" /\ board' = [board EXCEPT ![Target].mode = "leaving"]
           /\ Running(Target)
           /\ \/ Fail
              \/ pc' = "volume" /\ UNCHANGED <<mount, fileOk, before, found, polls, outcome>>
           /\ UNCHANGED <<remounted, envVars>>
  <2> DEFINE r == [board[Target] EXCEPT !.mode = "leaving"]
  <2>1. /\ board' = [board EXCEPT ![Target] = r]
        /\ r \in Board /\ SameImages(Target, r) /\ r.mode = "leaving"
    BY <1>1, <1>3 DEF Board, SameImages
  <2>2. \A c \in Boards : board'[c] = IF c = Target THEN r ELSE board[c]
    BY <1>1, <2>1
  <2> HIDE DEF r
  <2>3. /\ UNCHANGED <<mount, remounted, ports, fileOk, before, found, polls, powerCuts>>
        /\ pc' \in {"volume", "done"}
        /\ outcome' \in {"none", "error"} /\ (outcome' = "none" <=> pc' = "volume")
    BY <1>3 DEF Fail, IInv, OutcomeAtTheEnd, envVars
  <2>4. board' \in [Boards -> Board]
    BY <1>1, <2>1
  <2>5. TypeOK'
    BY <2>3, <2>4 DEF IInv, TypeOK
  <2>6. ConfirmedFirmware' = ConfirmedFirmware
    BY <1>1, <2>1, <2>2 DEF ConfirmedFirmware, SameImages
  <2>7. RebootsOnlyIfInstallable' /\ Checked'
    <3>1. before.version \in Nat /\ VersionLimit \in Nat
      BY ConstantsAssumption DEF IInv, TypeOK, Status
    <3>2. before.version + 1 <= VersionLimit
      BY <3>1 DEF IInv, Checked
    <3> QED BY <1>1, <1>3, <2>3, <3>2 DEF IInv, RebootsOnlyIfInstallable, Checked, InUpdate
  <2>8. OnlyTargetIsWritten' /\ NothingWrittenYet'
    BY <1>1, <1>3, <2>1, <2>2, <2>3 DEF IInv, OnlyTargetIsWritten, GotPackage, NothingWrittenYet, SameImages
  <2>9. NotConfirmedYet' /\ TrialIsNew' /\ OldIsWhereItWas'
    BY <1>1, <1>3, <2>1, <2>2, <2>3, <2>6
       DEF IInv, NotConfirmedYet, TrialIsNew, OldIsWhereItWas, SameImages, InUpdate
  <2> QED
    BY <2>3, <2>5, <2>6, <2>7, <2>8, <2>9
       DEF IInv, PathIsChecked, NewIsThePackage, OutcomeAtTheEnd
<1>4. CASE /\ pc = "write"
           /\ board' = [board EXCEPT ![Target].mode = "received"]
           /\ \/ Fail
              \/ pc' = "confirm" /\ UNCHANGED <<mount, fileOk, before, found, polls, outcome>>
           /\ UNCHANGED <<remounted, envVars>>
  <2> DEFINE r == [board[Target] EXCEPT !.mode = "received"]
  <2>2. /\ board' = [board EXCEPT ![Target] = r]
        /\ r \in Board /\ SameImages(Target, r) /\ r.mode = "received"
    BY <1>1, <1>4 DEF Board, SameImages
  <2>3. \A c \in Boards : board'[c] = IF c = Target THEN r ELSE board[c]
    BY <1>1, <2>2
  <2> HIDE DEF r
  <2>4. /\ UNCHANGED <<mount, remounted, ports, fileOk, before, found, polls, powerCuts>>
        /\ pc' \in {"confirm", "done"}
        /\ outcome' \in {"none", "error"} /\ (outcome' = "none" <=> pc' = "confirm")
    BY <1>4 DEF Fail, IInv, OutcomeAtTheEnd, envVars
  <2>5. TypeOK'
    <3>1. board' \in [Boards -> Board]
      BY <1>1, <2>2
    <3> QED BY <2>4, <3>1 DEF IInv, TypeOK
  <2>6. ConfirmedFirmware' = ConfirmedFirmware /\ ConfirmedFirmware # "new"
    BY <1>1, <1>4, <2>2, <2>3 DEF IInv, NothingWrittenYet, ConfirmedFirmware, SameImages, Board
  <2>7. \A s \in Slots : board'[Target].image[s].firmware # "new"
    BY <1>1, <1>4, <2>2, <2>3 DEF IInv, NothingWrittenYet, SameImages
  <2>8. RebootsOnlyIfInstallable' /\ Checked'
    BY <1>1, <1>4, <2>2, <2>3, <2>4 DEF IInv, RebootsOnlyIfInstallable, Checked, InUpdate
  <2>9. OnlyTargetIsWritten' /\ NotConfirmedYet' /\ NewIsThePackage'
    BY <1>1, <2>3, <2>4, <2>6, <2>7
       DEF IInv, OnlyTargetIsWritten, GotPackage, NotConfirmedYet, NewIsThePackage
  <2>10. NothingWrittenYet' /\ TrialIsNew' /\ OldIsWhereItWas'
    BY <1>1, <1>4, <2>2, <2>3, <2>4, <2>6
       DEF IInv, NothingWrittenYet, TrialIsNew, OldIsWhereItWas, SameImages, InUpdate
  <2> QED
    BY <2>4, <2>5, <2>6, <2>8, <2>9, <2>10 DEF IInv, PathIsChecked, OutcomeAtTheEnd
<1>5. CASE /\ pc = "write"
           /\ board' \in [Boards -> Board]
           /\ board'[Target] = board[Target]
           /\ \A c \in Boards \ {Target} : ~remounted => board'[c] = board[c]
           /\ \/ Fail
              \/ pc' = "confirm" /\ UNCHANGED <<mount, fileOk, before, found, polls, outcome>>
           /\ UNCHANGED <<remounted, envVars>>
  <2>1. /\ UNCHANGED <<mount, remounted, ports, fileOk, before, found, polls, powerCuts>>
        /\ pc' \in {"confirm", "done"}
        /\ outcome' \in {"none", "error"} /\ (outcome' = "none" <=> pc' = "confirm")
    BY <1>5 DEF Fail, IInv, OutcomeAtTheEnd, envVars
  <2>2. TypeOK'
    BY <1>5, <2>1 DEF IInv, TypeOK
  <2>3. ConfirmedFirmware' = ConfirmedFirmware
    BY <1>5 DEF ConfirmedFirmware
  <2>4. OnlyTargetIsWritten'
    BY <1>5, <2>1 DEF IInv, OnlyTargetIsWritten, GotPackage
  <2>5. RebootsOnlyIfInstallable' /\ Checked' /\ PathIsChecked' /\ OutcomeAtTheEnd'
    BY <1>5, <2>1 DEF IInv, RebootsOnlyIfInstallable, Checked, PathIsChecked, OutcomeAtTheEnd, InUpdate
  <2>6. NothingWrittenYet' /\ NotConfirmedYet' /\ TrialIsNew' /\ OldIsWhereItWas'
    BY <1>5, <2>1, <2>3
       DEF IInv, NothingWrittenYet, NotConfirmedYet, TrialIsNew, OldIsWhereItWas, InUpdate
  <2>7. NewIsThePackage'
    BY <1>5, <2>1 DEF IInv, NothingWrittenYet, NewIsThePackage
  <2> QED
    BY <2>2, <2>3, <2>4, <2>5, <2>6, <2>7 DEF IInv
<1>6. CASE EnterOta
  BY <1>2, <1>3, <1>6 DEF EnterOta
<1>7. CASE WritePackage
  <2>1. CASE Fail /\ UNCHANGED board
    BY <1>2, <1>7, <2>1 DEF WritePackage
  <2>2. CASE ~(Fail /\ UNCHANGED board) /\ ~Live(found)
    BY <1>1, <1>5, <1>7, <2>2 DEF WritePackage
  <2>3. CASE ~(Fail /\ UNCHANGED board) /\ Live(found) /\ mount[found] = Target
    BY <1>4, <1>7, <2>3 DEF WritePackage
  <2>4. CASE ~(Fail /\ UNCHANGED board) /\ Live(found) /\ mount[found] # Target
    <3> DEFINE b == mount[found]
               r == [board[b] EXCEPT !.mode = "received"]
    <3>1. b \in Boards /\ board' = [board EXCEPT ![b] = r]
      BY <1>1, <1>7, <2>4 DEF WritePackage, Live
    <3>2. r \in Board
      BY <1>1, <3>1 DEF Board
    <3>3. remounted
      BY <1>7, <2>4 DEF WritePackage, IInv, PathIsChecked
    <3>4. board' \in [Boards -> Board] /\ board'[Target] = board[Target]
      BY <1>1, <2>4, <3>1, <3>2
    <3> QED BY <1>5, <1>7, <2>4, <3>3, <3>4 DEF WritePackage
  <2> QED BY <2>1, <2>2, <2>3, <2>4
<1> QED BY <1>6, <1>7

(* The last wait: it keeps polling, gives up at the deadline, or finds a   *)
(* confirmed firmware, which is the new one exactly if the status is the   *)
(* one expected.                                                           *)
LEMMA ConfirmedIsExpected ==
  ASSUME IInv, pc = "confirm", OtaConfirmed(StatusOf(Target))
  PROVE  /\ board[Target].slot = board[Target].confirmed
         /\ board[Target].pending = Idle
         /\ CheckOtaResult(StatusOf(Target)) <=> ConfirmedFirmware = "new"
<1>1. board[Target] \in Board /\ before \in Status
  BY ConstantsAssumption DEF IInv, TypeOK
<1>2. board[Target].slot = board[Target].confirmed /\ board[Target].pending = Idle
  BY DEF StatusOf, OtaConfirmed
<1>3. board[Target].confirmed \in Slots /\ before.slot \in Slots
  BY <1>1 DEF Board, Status
<1>4. ASSUME ConfirmedFirmware = "new"
      PROVE  CheckOtaResult(StatusOf(Target))
  BY <1>2, <1>3, <1>4
     DEF IInv, NewIsThePackage, ConfirmedFirmware, CheckOtaResult, StatusOf, Slots
<1>5. ASSUME CheckOtaResult(StatusOf(Target)), ConfirmedFirmware # "new"
      PROVE  FALSE
  <2>1. board[Target].confirmed = before.slot
    BY <1>5 DEF IInv, OldIsWhereItWas, InUpdate
  <2>2. board[Target].slot = 1 - before.slot
    BY <1>5 DEF CheckOtaResult, StatusOf
  <2> QED BY <1>2, <1>3, <2>1, <2>2 DEF Slots
<1> QED BY <1>2, <1>4, <1>5

(* Polling for the confirmation preserves the invariant. *)
LEMMA PollStep ==
  ASSUME IInv, PollConfirmed
  PROVE  IInv'
<1>1. CASE Fail /\ UNCHANGED <<board, remounted, envVars>>
  BY <1>1, FailStep
<1>2. CASE pc = "confirm" /\ polls < MaxPolls /\ polls' = polls + 1
           /\ UNCHANGED <<board, mount, remounted, ports, fileOk, pc, before, found, outcome, powerCuts>>
  <2>1. TypeOK'
    BY <1>2, ConstantsAssumption DEF IInv, TypeOK
  <2> QED
    BY <1>2, <2>1
       DEF IInv, OnlyTargetIsWritten, RebootsOnlyIfInstallable, PathIsChecked, NothingWrittenYet,
           NotConfirmedYet, OldIsWhereItWas, TrialIsNew, NewIsThePackage, Checked, OutcomeAtTheEnd,
           ConfirmedFirmware, InUpdate, GotPackage
<1>3. CASE pc = "confirm" /\ pc' = "done" /\ outcome' = "ok"
           /\ UNCHANGED <<board, mount, remounted, ports, fileOk, before, found, polls, powerCuts>>
  <2>1. TypeOK'
    BY <1>3 DEF IInv, TypeOK
  <2> QED
    BY <1>3, <2>1
       DEF IInv, OnlyTargetIsWritten, RebootsOnlyIfInstallable, PathIsChecked, NothingWrittenYet,
           NotConfirmedYet, OldIsWhereItWas, TrialIsNew, NewIsThePackage, Checked, OutcomeAtTheEnd,
           ConfirmedFirmware, InUpdate, GotPackage
<1> QED BY <1>1, <1>2, <1>3 DEF PollConfirmed, KeepPolling, envVars

(* Every step preserves the invariant. *)
LEMMA InvStep == IInv /\ [Next]_vars => IInv'
<1> SUFFICES ASSUME IInv, [Next]_vars
             PROVE  IInv'
  OBVIOUS
<1>1. CASE LoadOtaFirmware \/ ReadStatus \/ PollVolume \/ RecheckVolume
  BY <1>1, ReadingStep
<1>2. CASE EnterOta \/ WritePackage
  BY <1>2, RequestStep
<1>3. CASE PollConfirmed
  BY <1>3, PollStep
<1>4. CASE Environment
  BY <1>4, EnvironmentStep, RemountStep DEF Environment
<1>5. CASE UNCHANGED vars
  <2>1. TypeOK'
    BY <1>5 DEF IInv, TypeOK, vars, hostVars, envVars
  <2> QED
    BY <1>5, <2>1
       DEF IInv, OnlyTargetIsWritten, RebootsOnlyIfInstallable, PathIsChecked, NothingWrittenYet,
           NotConfirmedYet, OldIsWhereItWas, TrialIsNew, NewIsThePackage, Checked, OutcomeAtTheEnd,
           ConfirmedFirmware, InUpdate, GotPackage, vars, hostVars, envVars
<1> QED BY <1>1, <1>2, <1>3, <1>4, <1>5 DEF Next, Download, Done

-----------------------------------------------------------------------------
(* The invariant holds throughout. *)
THEOREM Invariance == Spec => []IInv
<1> QED BY InitIInv, InvStep, PTL DEF Spec

(* TypeOK: boards, statuses and the state of DownloadFirmware keep their   *)
(* types; in particular no installed version passes the limit that         *)
(* MakeOtaPackage tests.                                                   *)
THEOREM TypeCorrect == Spec => []TypeOK
<1>1. IInv => TypeOK
  BY DEF IInv
<1> QED BY <1>1, Invariance, PTL

(* OnlyTargetIsWritten: FindVolume and the second look before the write    *)
(* keep the package away from every other gateway, unless the volumes are  *)
(* exchanged between that look and the opening of the file.                *)
THEOREM OthersAreSpared == Spec => []OnlyTargetIsWritten
<1>1. IInv => OnlyTargetIsWritten
  BY DEF IInv
<1> QED BY <1>1, Invariance, PTL

(* RebootsOnlyIfInstallable: OTA ENTER is sent only after the file, the    *)
(* confirmed firmware and the version were checked.                        *)
THEOREM ChecksComeFirst == Spec => []RebootsOnlyIfInstallable
<1>1. IInv => RebootsOnlyIfInstallable
  BY DEF IInv
<1> QED BY <1>1, Invariance, PTL

(* NoEarlyGiveUp: after the flush the command fails at the deadline, for a *)
(* confirmed firmware that is not the new one, or when FindPort throws.    *)
THEOREM WaitsForTheVerdict == Spec => NoEarlyGiveUp
<1>1. ASSUME IInv, [Next]_vars, pc = "confirm", outcome' = "error"
      PROVE  \/ polls = MaxPolls
             \/ ports = "error" \/ (ports = "several" /\ Running(Target))
             \/ /\ Running(Target)
                /\ board[Target].pending = Idle
                /\ board[Target].image[board[Target].slot].firmware # "new"
  <2>1. outcome = "none"
    BY <1>1 DEF IInv, OutcomeAtTheEnd
  <2>2. PollConfirmed
    BY <1>1, <2>1, EnvironmentChanges, RemountStep
       DEF Next, Download, Environment, Done, LoadOtaFirmware, ReadStatus, EnterOta, PollVolume,
           RecheckVolume, WritePackage, vars, hostVars
  <2>3. CASE Deadline
    BY <2>3 DEF Deadline
  <2>4. CASE FindPortThrows
    BY <2>4 DEF FindPortThrows
  <2>5. CASE ~Deadline /\ ~FindPortThrows
    <3>1. Running(Target) /\ OtaConfirmed(StatusOf(Target)) /\ ~CheckOtaResult(StatusOf(Target))
      BY <1>1, <2>1, <2>2, <2>5 DEF PollConfirmed, KeepPolling
    <3> QED BY <1>1, <3>1, ConfirmedIsExpected DEF ConfirmedFirmware
  <2> QED BY <2>3, <2>4, <2>5
<1>2. IInv /\ [Next]_vars =>
        ((pc = "confirm" /\ outcome' = "error") =>
           \/ polls = MaxPolls
           \/ ports = "error" \/ (ports = "several" /\ Running(Target))
           \/ /\ Running(Target)
              /\ board[Target].pending = Idle
              /\ board[Target].image[board[Target].slot].firmware # "new")
  BY <1>1
<1> QED BY <1>2, Invariance, PTL DEF Spec, NoEarlyGiveUp

(* KeepsPromise: DownloadFirmware implements OtaPromise. The promise sees  *)
(* of the boards only whether the confirmed firmware is the new one.       *)
THEOREM Refinement == Spec => KeepsPromise
<1>1. Init => Promise!Init
  <2> SUFFICES ASSUME Init
               PROVE  Promise!Init
    OBVIOUS
  <2>1. IInv /\ pc = "load" /\ outcome = "none"
    BY InitIInv DEF Init
  <2>2. board[Target] \in Board
    BY <2>1, ConstantsAssumption DEF IInv, TypeOK
  <2>3. ConfirmedFirmware # "new"
    BY <2>1, <2>2 DEF IInv, NothingWrittenYet, ConfirmedFirmware, Board
  <2> QED BY <2>1, <2>3 DEF Promise!Init, ConfirmedFirmware
<1>2. IInv /\ [Next]_vars => [Promise!Next]_(Promise!vars)
  <2> SUFFICES ASSUME IInv, [Next]_vars
               PROVE  [Promise!Next]_(Promise!vars)
    OBVIOUS
  <2> USE DEF Promise!Next, Promise!vars, Promise!Confirm, Promise!Succeed, Promise!Fail
  <2>0. CASE \E p \in Paths : Remount(p)
    BY <2>0, RemountStep
  <2>1. CASE \E b \in Boards : BoardSteps(b) \/ PowerCut(b)
    <3>1. PICK b \in Boards : BoardSteps(b) \/ PowerCut(b)
      BY <2>1
    <3>2. outcome' = outcome
      BY <3>1, EnvironmentChanges DEF hostVars
    <3>3. ConfirmedFirmware = "new" => ConfirmedFirmware' = "new"
      BY <3>1, EnvironmentStep
    <3> QED BY <3>2, <3>3 DEF ConfirmedFirmware
  <2>2. CASE EnterOta \/ WritePackage
    <3>1. ConfirmedFirmware' = ConfirmedFirmware
      BY <2>2, RequestStep
    <3>2. outcome = "none" /\ outcome' \in {"none", "error"}
      BY <2>2 DEF IInv, OutcomeAtTheEnd, EnterOta, WritePackage, Fail
    <3> QED BY <3>1, <3>2 DEF ConfirmedFirmware
  <2>3. CASE LoadOtaFirmware \/ ReadStatus \/ PollVolume \/ RecheckVolume
    <3>1. UNCHANGED board /\ outcome = "none" /\ outcome' \in {"none", "error"}
      BY <2>3
         DEF IInv, OutcomeAtTheEnd, LoadOtaFirmware, ReadStatus, PollVolume, RecheckVolume, Fail
    <3> QED BY <3>1
  <2>4. CASE PollConfirmed
    <3>1. UNCHANGED board /\ outcome = "none"
      BY <2>4 DEF PollConfirmed, IInv, OutcomeAtTheEnd
    <3>2. CASE outcome' \in {"none", "error"}
      BY <3>1, <3>2
    <3>3. CASE outcome' \notin {"none", "error"}
      <4>1. outcome' = "ok" /\ OtaConfirmed(StatusOf(Target)) /\ CheckOtaResult(StatusOf(Target))
        BY <2>4, <3>1, <3>3 DEF PollConfirmed, KeepPolling, Fail
      <4>2. ConfirmedFirmware = "new"
        BY <2>4, <4>1, ConfirmedIsExpected DEF PollConfirmed
      <4> QED BY <3>1, <4>1, <4>2 DEF ConfirmedFirmware
    <3> QED BY <3>2, <3>3
  <2>5. CASE UNCHANGED vars
    BY <2>5 DEF vars, hostVars
  <2> QED BY <2>0, <2>1, <2>2, <2>3, <2>4, <2>5 DEF Next, Download, Environment, Done
<1> QED BY <1>1, <1>2, Invariance, PTL DEF Spec, KeepsPromise, Promise!Spec

=============================================================================
