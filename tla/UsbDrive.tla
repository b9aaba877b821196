------------------------------ MODULE UsbDrive ------------------------------
(***************************************************************************)
(* The USB drive session at the head of setup(): the host reads and writes *)
(* the sectors of the card through callbacks, while the firmware lists the *)
(* root directory on its console through the sector cache of SdFat.  The   *)
(* callbacks go to the card, past that cache.  When the session ends the   *)
(* card passes to the logger, which mounts it again.                       *)
(*                                                                         *)
(* Callbacks run inside tud_task() and delay(), that is at pc = "task" and *)
(* in the drain; with PrintsYield also while the console is written, as    *)
(* the USB serial port does when its buffer is full.                       *)
(*                                                                         *)
(* Only the sectors of the root directory are kept, each with one of two   *)
(* contents; reads of the host change nothing and are left out, and so are *)
(* the LED colours.  The one-second limit is a flag that becomes true.     *)
(***************************************************************************)
EXTENDS Naturals

CONSTANTS
  DirSectors,   \* sectors of the root directory
  MaxChunks,    \* bound on the sectors of one WRITE10 command
  PrintsYield   \* the console runs callbacks while the directory is listed

ASSUME UsbAssumption ==
  DirSectors \in Nat \ {0} /\ MaxChunks \in Nat \ {0} /\ PrintsYield \in BOOLEAN

VARIABLES
  pc,
  card,        \* contents of the directory sectors on the card
  cache,       \* the data cache of SdFat: a sector number, 0 for any other, and its contents
  shown,       \* the contents behind the last listing on the console
  next,        \* the directory sector the listing reads next
  changed, unmount,
  ready,       \* setUnitReady
  connected,   \* tud_connected()
  late,        \* millis() - startTime > 1000
  inflight,    \* sectors of the host's WRITE10 that are still to come
  unflushed,   \* the command has written and msc_flush_cb has not run yet
  cut,         \* history: the last announcement of the host was lost, because the cable
               \* cut its command or its flush ran during the listing
  stalled      \* history: the drain was over before the data of a command was there

hostVars == <<card, inflight, unflushed, cut>>
listVars == <<cache, shown, next>>
vars == <<pc, hostVars, listVars, changed, unmount, ready, connected, late, stalled>>

Contents == {"old", "new"}
Sectors  == 1..DirSectors
NoSector == [sector |-> 0, data |-> "old"]

\* sd->begin has mounted the card and setUnitReady(true) has run.
Init == /\ pc = "test"
        /\ card \in [Sectors -> Contents]
        /\ cache = NoSector
        /\ shown = card /\ next = 1
        /\ changed = TRUE /\ unmount = FALSE /\ ready = TRUE
        /\ connected \in BOOLEAN /\ late = FALSE
        /\ inflight = 0 /\ unflushed = FALSE /\ cut = FALSE /\ stalled = FALSE

-----------------------------------------------------------------------------
(* The main loop of usbDrive() *)

\* while (!unmount) { if (changed) ...
\* (Mutant: the listing starts one sector too early.)
LoopTestFromZero ==
  /\ pc = "test"
  /\ pc' = IF unmount THEN "unready" ELSE IF changed THEN "listing" ELSE "task"
  /\ next' = 0
  /\ UNCHANGED <<hostVars, cache, shown, changed, unmount, ready, connected, late, stalled>>
LoopTest ==
  /\ pc = "test"
  /\ pc' = IF unmount THEN "unready" ELSE IF changed THEN "listing" ELSE "task"
  /\ next' = 1
  /\ UNCHANGED <<hostVars, cache, shown, changed, unmount, ready, connected, late, stalled>>

\* FsCache::prepare: a sector that the cache holds is not read again.
Prepared(s) == IF cache.sector = s THEN cache.data ELSE card[s]

\* openNext() goes through the directory sector by sector.
ListSector ==
  /\ pc = "listing" /\ next <= DirSectors
  /\ shown' = [shown EXCEPT ![next] = Prepared(next)]
  /\ cache' = [sector |-> next, data |-> Prepared(next)]
  /\ next' = next + 1
  /\ UNCHANGED <<pc, hostVars, changed, unmount, ready, connected, late, stalled>>

\* root.close(); changed = false; delay(100) and tud_task() follow.
ListDone ==
  /\ pc = "listing" /\ next > DirSectors
  /\ changed' = FALSE
  /\ pc' = "task"
  /\ UNCHANGED <<hostVars, listVars, unmount, ready, connected, late, stalled>>

\* tud_task() returns; after the first second an absent host ends the session.
\* (Mutant: a host that is there ends it.)
ConnectionCheckInverted ==
  /\ pc = "task"
  /\ pc' = "test"
  /\ unmount' = (unmount \/ (late /\ connected))
  /\ UNCHANGED <<hostVars, listVars, changed, ready, connected, late, stalled>>
ConnectionCheck ==
  /\ pc = "task"
  /\ pc' = "test"
  /\ unmount' = (unmount \/ (late /\ ~connected))
  /\ UNCHANGED <<hostVars, listVars, changed, ready, connected, late, stalled>>

\* setUnitReady(false); the drain of two seconds begins.
\* (Mutant: the unit stays ready.)
UnreadyForgotten ==
  /\ pc = "unready" /\ pc' = "drain"
  /\ UNCHANGED <<hostVars, listVars, changed, unmount, ready, connected, late, stalled>>
Unready ==
  /\ pc = "unready"
  /\ pc' = "drain"
  /\ ready' = FALSE
  /\ UNCHANGED <<hostVars, listVars, changed, unmount, connected, late, stalled>>

\* Two seconds without a callback, then sd->end() and SPI.end().  Nothing asks for a
\* command in progress: a host that keeps still for so long within one loses the drain.
DrainEnds ==
  /\ pc = "drain"
  /\ pc' = "ended"
  /\ stalled' = (inflight > 0)
  /\ UNCHANGED <<hostVars, listVars, changed, unmount, ready, connected, late>>

\* SD.begin in sd_setup: the mount initialises the cache.
\* (Mutant: the mount keeps what the cache held.)
RemountKeepsCache ==
  /\ pc = "ended"
  /\ pc' = "remounted"
  /\ UNCHANGED <<hostVars, listVars, changed, unmount, ready, connected, late, stalled>>
Remount ==
  /\ pc = "ended"
  /\ pc' = "remounted"
  /\ cache' = NoSector
  /\ UNCHANGED <<hostVars, shown, next, changed, unmount, ready, connected, late, stalled>>

\* sd_setup goes through the directory again: SD.exists of the first name.
SearchDirectory ==
  /\ pc = "remounted"
  /\ \E s \in Sectors : cache' = [sector |-> s, data |-> Prepared(s)]
  /\ pc' = "logging"
  /\ UNCHANGED <<hostVars, shown, next, changed, unmount, ready, connected, late, stalled>>

OneSecondPasses ==
  /\ ~late
  /\ late' = TRUE
  /\ UNCHANGED <<pc, hostVars, listVars, changed, unmount, ready, connected, stalled>>

-----------------------------------------------------------------------------
(* The host *)

\* The places where the USB stack runs and calls back; later on delay() of the
\* logger runs it too.
CallbacksRun == /\ connected
                /\ \/ pc \in {"task", "drain", "ended", "remounted", "logging"}
                   \/ PrintsYield /\ pc = "listing"

\* The host starts commands only on a unit that is ready, one at a time.
HostBegin ==
  /\ CallbacksRun /\ ready /\ inflight = 0 /\ ~unflushed
  /\ inflight' \in 1..MaxChunks
  /\ UNCHANGED <<pc, card, unflushed, cut, listVars, changed, unmount, ready, connected, late, stalled>>

\* msc_write_cb: straight to the card.
HostWrite ==
  /\ CallbacksRun /\ inflight > 0
  /\ \E s \in Sectors, c \in Contents : card' = [card EXCEPT ![s] = c]
  /\ inflight' = inflight - 1
  /\ unflushed' = TRUE
  /\ UNCHANGED <<pc, cut, listVars, changed, unmount, ready, connected, late, stalled>>

\* Between SPI.end() and SD.begin the port is off: msc_write_cb may return -1, which
\* ends the command.
HostWriteFails ==
  /\ CallbacksRun /\ inflight > 0 /\ pc = "ended"
  /\ inflight' = 0 /\ unflushed' = TRUE
  /\ UNCHANGED <<pc, card, cut, listVars, changed, unmount, ready, connected, late, stalled>>

\* msc_flush_cb, when the status of the command has been accepted.
\* (Mutant: the flag is not set.)
HostFlushQuiet ==
  /\ CallbacksRun /\ inflight = 0 /\ unflushed
  /\ unflushed' = FALSE
  /\ cut' = (pc = "listing")
  /\ UNCHANGED <<pc, card, inflight, listVars, changed, unmount, ready, connected, late, stalled>>
HostFlush ==
  /\ CallbacksRun /\ inflight = 0 /\ unflushed
  /\ unflushed' = FALSE
  /\ changed' = TRUE
  /\ cut' = (pc = "listing")
  /\ UNCHANGED <<pc, card, inflight, listVars, unmount, ready, connected, late, stalled>>

\* START STOP UNIT with load_eject and not start.
HostEject ==
  /\ CallbacksRun /\ ready /\ inflight = 0 /\ ~unflushed
  /\ unmount' = TRUE
  /\ UNCHANGED <<pc, hostVars, listVars, changed, ready, connected, late, stalled>>

\* The cable comes or goes; a command that was in progress is gone with it.
CableChange ==
  /\ connected' = ~connected
  /\ inflight' = 0 /\ unflushed' = FALSE
  /\ cut' = (cut \/ inflight > 0 \/ unflushed)
  /\ UNCHANGED <<pc, card, listVars, changed, unmount, ready, late, stalled>>

-----------------------------------------------------------------------------
Firmware == \/ LoopTest \/ ListSector \/ ListDone \/ ConnectionCheck \/ Unready
            \/ DrainEnds \/ Remount \/ SearchDirectory
Host == HostBegin \/ HostWrite \/ HostWriteFails \/ HostFlush \/ HostEject \/ CableChange

Next == Firmware \/ OneSecondPasses \/ Host

Spec == Init /\ [][Next]_vars

\* The processor runs and its clock advances; the host owes nothing, not even the end
\* of a command.
FairSpec == Spec /\ WF_vars(Firmware) /\ WF_vars(OneSecondPasses)

-----------------------------------------------------------------------------
TypeOK ==
  /\ pc \in {"test", "listing", "task", "unready", "drain", "ended", "remounted", "logging"}
  /\ card \in [Sectors -> Contents] /\ shown \in [Sectors -> Contents]
  /\ cache \in [sector : 0..DirSectors, data : Contents]
  /\ next \in 1..(DirSectors + 1)
  /\ inflight \in 0..MaxChunks
  /\ {changed, unmount, ready, connected, late, unflushed, cut, stalled} \subseteq BOOLEAN

\* When nothing is pending, the listing on the console is the directory on the
\* card: each command of the host is followed by a listing that sees it.  Only a
\* command that the cable cut, or that was completed while the directory was being
\* listed, may be missed, and only until the next one.  (usbdrive.ino:59, "clear file
\* system's cache to force refresh".)
Quiescent == ~changed /\ pc = "task" /\ inflight = 0 /\ ~unflushed
ListingFresh == Quiescent /\ ~cut => shown = card

\* Once the logger has the card, what the host writes behind the logger's cache is at
\* most the rest of one command, in which it had kept still for the two seconds of the
\* drain: no command begins any more, and without such a pause nothing is written.
\* (usbdrive.ino:155-166: the unit is not ready, but the callbacks stay.)
LoggerHasCard == pc \in {"ended", "remounted", "logging"}
LoggerOwnsCard ==
  [][LoggerHasCard => /\ inflight' <= inflight
                      /\ card' # card => stalled /\ inflight' < inflight]_vars

\* The directory that the search for a new file name sees is the one the host
\* left, not the one listed during the session.
SearchSeesHostFiles ==
  [][pc = "remounted" /\ pc' = "logging" => cache'.data = card[cache'.sector]]_vars

\* An eject, or a host that is gone for good, ends the session.
SessionEnds == /\ unmount ~> (pc = "logging")
               /\ []~connected ~> (pc = "logging")
=============================================================================
