--------------------------- MODULE UsbDriveProofs ---------------------------
(***************************************************************************)
(* The session of the USB drive, for every size of the root directory and  *)
(* every length of a command, whether the console yields or not.           *)
(*                                                                         *)
(* Handover: from the drain on the unit is not ready, an absent host has   *)
(* nothing in progress, and after the drain only a host that has outlasted *)
(* it within a command has.  Listed: what a listing has shown so far is on the card unless  *)
(* something unannounced is pending, and the cache never holds the sector  *)
(* that is listed next, provided the directory has more than one.          *)
(***************************************************************************)
EXTENDS UsbDrive, TLAPS

Handover ==
  /\ pc = "drain" \/ LoggerHasCard => ~ready
  /\ ~connected => inflight = 0 /\ ~unflushed
  /\ LoggerHasCard /\ ~stalled => inflight = 0
  /\ pc = "remounted" => cache = NoSector

Clean == inflight = 0 /\ ~unflushed /\ ~cut
Listed ==
  /\ pc = "listing" /\ Clean => \A s \in Sectors : s < next => shown[s] = card[s]
  /\ pc # "listing" /\ Clean /\ ~changed => shown = card
  /\ pc \in {"test", "task"} \/ (pc = "listing" /\ next = 1) => cache.sector \in {0, DirSectors}
  /\ pc = "listing" /\ next > 1 => cache.sector = next - 1

SessionInv == TypeOK /\ Handover /\ (DirSectors > 1 => Listed)

-----------------------------------------------------------------------------
LEMMA SectorNumbers == /\ DirSectors \in Nat /\ DirSectors > 0 /\ MaxChunks \in Nat
                       /\ \A s : s \in Sectors <=> s \in Nat /\ 1 <= s /\ s <= DirSectors
BY UsbAssumption DEF Sectors

LEMMA PreparedType ==
  ASSUME TypeOK, NEW s \in Sectors PROVE Prepared(s) \in Contents
BY SectorNumbers DEF TypeOK, Prepared

LEMMA SessionInit == Init => SessionInv
<1> SUFFICES ASSUME Init PROVE SessionInv
  OBVIOUS
<1>1. TypeOK
  <2>1. card \in [Sectors -> Contents] /\ shown \in [Sectors -> Contents]
    BY DEF Init
  <2>2. cache \in [sector : 0..DirSectors, data : Contents]
    BY SectorNumbers DEF Init, NoSector, Contents
  <2>3. next \in 1..(DirSectors + 1) /\ inflight \in 0..MaxChunks
    BY SectorNumbers DEF Init
  <2> QED BY <2>1, <2>2, <2>3 DEF Init, TypeOK
<1>2. Handover
  BY DEF Init, Handover, LoggerHasCard
<1>3. Listed
  BY DEF Init, Listed, NoSector
<1> QED BY <1>1, <1>2, <1>3 DEF SessionInv

LEMMA TypeStep == TypeOK /\ [Next]_vars => TypeOK'
<1> SUFFICES ASSUME TypeOK, [Next]_vars PROVE TypeOK'
  OBVIOUS
<1> USE SectorNumbers DEF TypeOK
<1>1. CASE LoopTest
  BY <1>1 DEF LoopTest, hostVars
<1>2. CASE ListSector
  <2>1. next \in Sectors /\ next + 1 \in 1..(DirSectors + 1)
    BY <1>2 DEF ListSector
  <2>2. Prepared(next) \in Contents
    BY <2>1, PreparedType
  <2> QED BY <1>2, <2>1, <2>2 DEF ListSector, hostVars
<1>3. CASE ListDone
  BY <1>3 DEF ListDone, hostVars, listVars
<1>4. CASE ConnectionCheck
  BY <1>4 DEF ConnectionCheck, hostVars, listVars
<1>5. CASE Unready
  BY <1>5 DEF Unready, hostVars, listVars
<1>12. CASE DrainEnds
  <2>1. stalled' \in BOOLEAN
    BY <1>12 DEF DrainEnds
  <2> QED BY <1>12, <2>1 DEF DrainEnds, hostVars, listVars
<1>6. CASE Remount
  BY <1>6 DEF Remount, hostVars, NoSector, Contents
<1>7. CASE SearchDirectory
  <2>1. PICK s \in Sectors : cache' = [sector |-> s, data |-> Prepared(s)]
    BY <1>7 DEF SearchDirectory
  <2>2. cache' \in [sector : 0..DirSectors, data : Contents]
    BY <2>1, PreparedType
  <2> QED BY <1>7, <2>2 DEF SearchDirectory, hostVars
<1>8. CASE OneSecondPasses
  BY <1>8 DEF OneSecondPasses, hostVars, listVars
<1>9. CASE HostBegin \/ HostWriteFails \/ HostFlush \/ HostEject \/ CableChange
  <2>1. {changed', unmount', ready', connected', late', unflushed', stalled'} \subseteq BOOLEAN
    BY <1>9 DEF HostBegin, HostWriteFails, HostFlush, HostEject, CableChange, hostVars, listVars
  <2>2. inflight' \in 0..MaxChunks
    BY <1>9 DEF HostBegin, HostWriteFails, HostFlush, HostEject, CableChange, hostVars, listVars
  <2>3. cut' \in BOOLEAN
    BY <1>9 DEF HostBegin, HostWriteFails, HostFlush, HostEject, CableChange, hostVars
  <2> QED
    BY <1>9, <2>1, <2>2, <2>3
       DEF HostBegin, HostWriteFails, HostFlush, HostEject, CableChange, hostVars, listVars
<1>10. CASE HostWrite
  <2>1. card' \in [Sectors -> Contents]
    BY <1>10 DEF HostWrite
  <2>2. inflight' \in 0..MaxChunks
    BY <1>10 DEF HostWrite
  <2> QED BY <1>10, <2>1, <2>2 DEF HostWrite, listVars
<1>11. CASE UNCHANGED vars
  BY <1>11 DEF vars, hostVars, listVars
<1> QED
  BY <1>1, <1>2, <1>3, <1>4, <1>5, <1>6, <1>7, <1>8, <1>9, <1>10, <1>11, <1>12 DEF Next, Firmware, Host

\* The hand-over, what the host can still write behind it, and what the search reads.
LEMMA HandoverStep ==
  TypeOK /\ Handover /\ [Next]_vars
    => /\ Handover'
       /\ LoggerHasCard => /\ inflight' <= inflight
                           /\ card' # card => stalled /\ inflight' < inflight
       /\ pc = "remounted" /\ pc' = "logging" => cache'.data = card[cache'.sector]
<1> SUFFICES ASSUME TypeOK, Handover, [Next]_vars
             PROVE  /\ Handover'
                    /\ LoggerHasCard => /\ inflight' <= inflight
                                        /\ card' # card => stalled /\ inflight' < inflight
                    /\ pc = "remounted" /\ pc' = "logging" => cache'.data = card[cache'.sector]
  OBVIOUS
<1> inflight \in Nat
  BY SectorNumbers DEF TypeOK
<1> USE DEF Handover, LoggerHasCard
<1>1. CASE LoopTest \/ ListSector \/ ListDone \/ ConnectionCheck \/ Unready
  BY <1>1 DEF LoopTest, ListSector, ListDone, ConnectionCheck, Unready, hostVars, listVars
<1>2. CASE DrainEnds \/ Remount
  <2>1. CASE DrainEnds
    <3>1. inflight > 0 \/ inflight = 0
      OBVIOUS
    <3>2. ~stalled' => inflight' = 0
      BY <2>1, <3>1 DEF DrainEnds, hostVars
    <3> QED BY <2>1, <3>2 DEF DrainEnds, hostVars, listVars
  <2>2. CASE Remount
    BY <2>2 DEF Remount, hostVars
  <2> QED BY <1>2, <2>1, <2>2
<1>3. CASE SearchDirectory
  <2>1. PICK s \in Sectors : cache' = [sector |-> s, data |-> Prepared(s)]
    BY <1>3 DEF SearchDirectory
  <2>2. Prepared(s) = card[s]
    BY <1>3, SectorNumbers DEF SearchDirectory, Prepared, NoSector
  <2>3. cache'.data = card[cache'.sector]
    BY <2>1, <2>2
  <2> QED BY <1>3, <2>3 DEF SearchDirectory, hostVars
<1>4. CASE OneSecondPasses
  BY <1>4 DEF OneSecondPasses, hostVars, listVars
<1>5. CASE HostBegin \/ HostFlush \/ HostEject \/ HostWriteFails
  BY <1>5 DEF HostBegin, HostFlush, HostEject, HostWriteFails, CallbacksRun, hostVars, listVars
<1>6. CASE HostWrite
  <2>1. LoggerHasCard => stalled
    BY <1>6 DEF HostWrite
  <2>2. inflight' < inflight /\ inflight' <= inflight /\ pc' = pc
    BY <1>6 DEF HostWrite
  <2>3. Handover'
    BY <1>6, <2>1 DEF HostWrite, CallbacksRun, listVars
  <2> QED BY <2>1, <2>2, <2>3
<1>7. CASE CableChange
  <2>1. pc' = pc /\ card' = card /\ inflight' <= inflight
    BY <1>7 DEF CableChange
  <2>2. Handover'
    BY <1>7 DEF CableChange, listVars
  <2> QED BY <2>1, <2>2
<1>8. CASE UNCHANGED vars
  <2>1. pc' = pc /\ card' = card /\ inflight' = inflight
    BY <1>8 DEF vars, hostVars
  <2>2. Handover'
    BY <1>8 DEF vars, hostVars, listVars
  <2> QED BY <2>1, <2>2
<1> QED BY <1>1, <1>2, <1>3, <1>4, <1>5, <1>6, <1>7, <1>8 DEF Next, Firmware, Host

\* The listing, in a directory of more than one sector.
LEMMA ListedStep == TypeOK /\ Listed /\ DirSectors > 1 /\ [Next]_vars => Listed'
<1> SUFFICES ASSUME TypeOK, Listed, DirSectors > 1, [Next]_vars PROVE Listed'
  OBVIOUS
<1> USE SectorNumbers DEF Listed, Clean
<1>1. CASE LoopTest
  BY <1>1 DEF LoopTest, hostVars, TypeOK
<1>2. CASE ListSector
  <2>1. next \in Sectors /\ next \in Nat
    BY <1>2 DEF ListSector, TypeOK
  <2>2. cache.sector # next
    BY <1>2, <2>1 DEF ListSector
  <2>3. Prepared(next) = card[next]
    BY <2>2 DEF Prepared
  <2>4. shown' = [shown EXCEPT ![next] = card[next]] /\ cache'.sector = next /\ next' = next + 1
    BY <1>2, <2>3 DEF ListSector
  <2>5. ASSUME Clean', NEW s \in Sectors, s < next' PROVE shown'[s] = card'[s]
    BY <1>2, <2>1, <2>4, <2>5 DEF ListSector, hostVars, TypeOK
  <2> QED BY <1>2, <2>1, <2>4, <2>5 DEF ListSector
<1>3. CASE ListDone
  <2>1. Clean => shown = card
    BY <1>3 DEF ListDone, TypeOK
  <2>2. cache.sector \in {0, DirSectors}
    BY <1>3 DEF ListDone, TypeOK
  <2> QED BY <1>3, <2>1, <2>2 DEF ListDone, hostVars, listVars
<1>4. CASE ConnectionCheck \/ Unready \/ DrainEnds \/ OneSecondPasses
  BY <1>4 DEF ConnectionCheck, Unready, DrainEnds, OneSecondPasses, hostVars, listVars
<1>5. CASE Remount \/ SearchDirectory
  BY <1>5 DEF Remount, SearchDirectory, hostVars
<1>6. CASE HostBegin
  BY <1>6 DEF HostBegin, listVars
<1>7. CASE HostWrite \/ HostWriteFails
  BY <1>7 DEF HostWrite, HostWriteFails, listVars
<1>8. CASE HostFlush
  BY <1>8 DEF HostFlush, listVars
<1>9. CASE HostEject
  BY <1>9 DEF HostEject, hostVars, listVars
<1>10. CASE CableChange
  <2>1. Clean' => Clean
    <3>1. Clean' => ~cut /\ ~(inflight > 0) /\ ~unflushed
      BY <1>10, Zenon DEF CableChange
    <3>2. inflight > 0 \/ inflight = 0
      BY DEF TypeOK
    <3> QED BY <3>1, <3>2
  <2> QED BY <1>10, <2>1 DEF CableChange, listVars
<1>11. CASE UNCHANGED vars
  BY <1>11 DEF vars, hostVars, listVars
<1> QED
  BY <1>1, <1>2, <1>3, <1>4, <1>5, <1>6, <1>7, <1>8, <1>9, <1>10, <1>11 DEF Next, Firmware, Host

LEMMA SessionInvariant == Spec => []SessionInv
<1>1. SessionInv /\ [Next]_vars => SessionInv'
  <2> SUFFICES ASSUME SessionInv, [Next]_vars PROVE SessionInv'
    OBVIOUS
  <2>1. TypeOK'
    BY TypeStep DEF SessionInv
  <2>2. Handover'
    BY HandoverStep DEF SessionInv
  <2>3. DirSectors > 1 => Listed'
    BY ListedStep DEF SessionInv
  <2> QED BY <2>1, <2>2, <2>3 DEF SessionInv
<1> QED BY <1>1, SessionInit, PTL DEF Spec

-----------------------------------------------------------------------------
\* Types of the session.
THEOREM SessionTypes == Spec => []TypeOK
<1>1. SessionInv => TypeOK
  BY DEF SessionInv
<1> QED BY <1>1, SessionInvariant, PTL

\* sd_setup searches the directory that the host left.
THEOREM SearchSees == Spec => SearchSeesHostFiles
<1>1. SessionInv /\ [Next]_vars
        => [pc = "remounted" /\ pc' = "logging" => cache'.data = card[cache'.sector]]_vars
  BY HandoverStep DEF SessionInv
<1> QED BY <1>1, SessionInvariant, PTL DEF Spec, SearchSeesHostFiles

\* Once the drain is over, a callback writes the card only for what was left of a
\* command that had kept still for the whole of the drain.
THEOREM CardHandedOver == Spec => LoggerOwnsCard
<1>1. SessionInv /\ [Next]_vars
        => [LoggerHasCard => /\ inflight' <= inflight
                             /\ card' # card => stalled /\ inflight' < inflight]_vars
  BY HandoverStep DEF SessionInv
<1> QED BY <1>1, SessionInvariant, PTL DEF Spec, LoggerOwnsCard

\* In a directory of more than one sector, a listing that nothing followed is the
\* directory.  (With one sector it is not: the run usb_one_sector.)
THEOREM ListingSeesCard == Spec => [](DirSectors > 1 => ListingFresh)
<1>1. SessionInv => (DirSectors > 1 => ListingFresh)
  BY DEF SessionInv, Listed, Clean, ListingFresh, Quiescent
<1> QED BY <1>1, SessionInvariant, PTL
=============================================================================
