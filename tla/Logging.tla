------------------------------- MODULE Logging -------------------------------
(***************************************************************************)
(* log.go and the part of log4go smtprelay uses: LoadConfiguration opens   *)
(* one writer per enabled filter of the XML file; every log call builds a  *)
(* record and sends it to the channel of every filter that admits its      *)
(* level, in the order Go happens to iterate over the map; one goroutine   *)
(* per writer takes the records out again.  The channels are short and a   *)
(* send blocks, so every goroutine of the program depends on the writers.  *)
(*                                                                         *)
(* The process may be killed at any moment and started again, perhaps with *)
(* another configuration.  What is on disk stays, what is in a channel is  *)
(* gone (no path of smtprelay closes the logger).  The header and trailer  *)
(* lines are empty here and the text of a record is not modelled.          *)
(***************************************************************************)
EXTENDS Naturals, Sequences, FiniteSets, SequencesExt

CONSTANTS
  Configurations,     \* the filter lists the XML file may hold
  Goroutine,          \* goroutines that log
  Level,              \* levels they log at
  LogBufferLength,    \* capacity of the channel of a writer
  MaxOld,             \* numbers intRotate tries for an old file, 999
  MaxCalls,           \* bound: log calls, over all starts
  MaxBoots,           \* bound: starts of the process
  None                \* no record in hand

ASSUME LoggingAssumption ==
  /\ LogBufferLength \in Nat \ {0} /\ MaxOld \in Nat
  /\ MaxCalls \in Nat /\ MaxBoots \in Nat /\ Level \subseteq Nat

Filters == UNION {Range(c) : c \in Configurations}
Tags == {f.tag : f \in Filters}

(* A file is written by one filter: two of them would rename it under each *)
(* other's feet.  A filter is well formed when it has its required         *)
(* children, a known level and the property its type requires.             *)
FileTypes == {"file", "xml"}
Types == FileTypes \cup {"console", "socket"}
IsFile(f) == f.type \in FileTypes
ASSUME ConfigurationAssumption ==
  /\ \A c \in Configurations :
       /\ c \in Seq(Filters)
       /\ \A i, j \in DOMAIN c : IsFile(c[i]) /\ IsFile(c[j]) => i = j
  /\ \A f \in Filters : f.maxlines \in Nat /\ f.rotate \in BOOLEAN

Record == [from : Goroutine, n : 1..MaxCalls, level : Level]
ASSUME NoneAssumption == None \notin Record

VARIABLES
  proc,          \* "down", "loading" or "running"
  config,        \* the filters LoadConfiguration has still to handle
  log,           \* the Logger: per tag its filter and the state of its writer
  file,          \* records in the log file
  fileExists,
  numbers,       \* numbered old files
  old,           \* records in them, oldest file first
  issued,        \* per goroutine: levels of its calls since the start
  left,          \* per goroutine: filters its current call has still to serve
  boots,         \* starts so far
  made,          \* log calls so far
  accepted,      \* history: per tag, what went into the writer's channel
  diskAtStart    \* history: what was on disk when the process started

disk == <<file, fileExists, numbers, old>>
calls == <<made, issued, left>>
history == <<boots, accepted, diskAtStart>>
vars == <<proc, config, log, disk, calls, history>>

OnDisk == old \o file

(* The writers' program counters: waiting for a record, in intRotate       *)
(* before the rename and before the open, about to write, gone after an    *)
(* error; and the nil writer NewSocketLogWriter returns without a server.  *)
WriterPc == {"wait", "rename", "open", "write", "dead", "nil"}

WriterRecord ==
  [filter : Filters, pc : WriterPc, ch : Seq(Record), hand : Record \cup {None},
   curlines : Nat]

TypeOK ==
  /\ proc \in {"down", "loading", "running"}
  /\ DOMAIN log \subseteq Tags
  /\ \A t \in DOMAIN log :
       /\ log[t] \in WriterRecord
       /\ log[t].filter.tag = t /\ Len(log[t].ch) <= LogBufferLength
  /\ old \in Seq(Record) /\ file \in Seq(Record) /\ fileExists \in BOOLEAN
  /\ ~fileExists => file = <<>>
  /\ numbers \in 0..MaxOld
  /\ made \in 0..MaxCalls /\ boots \in 0..MaxBoots
  /\ issued \in [Goroutine -> Seq(Level)] /\ left \in [Goroutine -> Seq(DOMAIN log)]

NoCalls == issued = [g \in Goroutine |-> <<>>] /\ left = [g \in Goroutine |-> <<>>]

Init ==
  /\ proc = "down" /\ config = <<>> /\ log = <<>>
  /\ file = <<>> /\ fileExists = FALSE /\ numbers = 0 /\ old = <<>>
  /\ NoCalls
  /\ boots = 0 /\ made = 0 /\ accepted = <<>> /\ diskAtStart = <<>>

-----------------------------------------------------------------------------
(* Start-up: InitLogger, LoadConfiguration. *)

(* The default console filter is closed and removed before anybody logs.   *)
Boot ==
  /\ proc = "down" /\ boots < MaxBoots
  /\ proc' = "loading" /\ boots' = boots + 1
  /\ config' \in Configurations
  /\ log' = <<>>
  /\ accepted' = [t \in Tags |-> <<>>] /\ diskAtStart' = OnDisk
  /\ UNCHANGED <<disk, calls>>

(* The process is gone: killed, os.Exit, the end of main, or a panic.      *)
Down ==
  /\ proc' = "down" /\ config' = <<>> /\ log' = <<>>
  /\ issued' = [g \in Goroutine |-> <<>>] /\ left' = [g \in Goroutine |-> <<>>]
  /\ UNCHANGED made

Kill == proc # "down" /\ Down /\ UNCHANGED <<disk, history>>

Writer(f, pc) ==
  [filter |-> f, pc |-> pc, ch |-> <<>>, hand |-> None, curlines |-> 0]

Install(f, pc) ==
  /\ log' = [t \in DOMAIN log \cup {f.tag} |-> IF t = f.tag THEN Writer(f, pc) ELSE log[t]]
  /\ config' = Tail(config)
  /\ UNCHANGED proc

(* NewFileLogWriter calls intRotate before LoadConfiguration goes on.      *)
Rotating == \E t \in DOMAIN log : log[t].pc \in {"rename", "open"}

xmlToConsoleLogWriter(f) == f.type = "console" /\ Install(f, "wait")

xmlToFileLogWriter(f) == f.type = "file" /\ Install(f, "rename")

(* Another format of a record, and header lines.                           *)
xmlToXMLLogWriter(f) == f.type = "xml" /\ Install(f, "rename")

(* Dial may fail; the nil channel is installed like any other.             *)
xmlToSocketLogWriter(f) ==
  /\ f.type = "socket"
  /\ \/ Install(f, "wait")
     \/ Install(f, "nil")

(* A filter that is not well formed ends the process, a disabled one only  *)
(* gets this check; of two with one tag the later wins.                    *)
LoadFilter ==
  /\ proc = "loading" /\ config # <<>> /\ ~Rotating
  /\ LET f == Head(config) IN
       \/ /\ ~f.wellFormed \/ f.type \notin Types
          /\ Down
       \/ /\ f.wellFormed /\ ~f.enabled /\ f.type \in Types
          /\ config' = Tail(config)
          /\ UNCHANGED <<proc, log, calls>>
       \/ /\ f.wellFormed /\ f.enabled
          /\ \/ xmlToConsoleLogWriter(f)
             \/ xmlToFileLogWriter(f)
             \/ xmlToXMLLogWriter(f)
             \/ xmlToSocketLogWriter(f)
          /\ UNCHANGED calls
  /\ UNCHANGED <<disk, history>>

Loaded ==
  /\ proc = "loading" /\ config = <<>> /\ ~Rotating
  /\ proc' = "running"
  /\ UNCHANGED <<config, log, disk, calls, history>>

-----------------------------------------------------------------------------
(* A log call. *)

Admits(t, level) == level >= log[t].filter.level

intLogf(g, level) ==
  /\ proc = "running"
  /\ left[g] = <<>> /\ made < MaxCalls
  /\ made' = made + 1
  /\ issued' = [issued EXCEPT ![g] = Append(@, level)]
  /\ \E order \in SetToSeqs({t \in DOMAIN log : Admits(t, level)}) :
       left' = [left EXCEPT ![g] = order]
  /\ UNCHANGED <<proc, config, log, disk, history>>

(* Debug, Info, Warn, Error and Critical differ in their level alone.      *)
LogCall(g) == \E level \in Level : intLogf(g, level)

RecordOf(g) == [from |-> g, n |-> Len(issued[g]), level |-> Last(issued[g])]

(* Mutant: a filter whose channel is full is passed over.                  *)
LogWriteOrSkip(g) ==
  /\ left[g] # <<>>
  /\ LET t == Head(left[g]) IN
       IF Len(log[t].ch) < LogBufferLength
         THEN /\ log' = [log EXCEPT ![t].ch = Append(@, RecordOf(g))]
              /\ accepted' = [accepted EXCEPT ![t] = Append(@, RecordOf(g))]
         ELSE UNCHANGED <<log, accepted>>
  /\ left' = [left EXCEPT ![g] = Tail(@)]
  /\ UNCHANGED <<proc, config, disk, made, issued, boots, diskAtStart>>

(* w.rec <- rec, of the filter whose turn it is.                           *)
LogWrite(g) ==
  /\ left[g] # <<>>
  /\ LET t == Head(left[g]) IN
       /\ log[t].pc # "nil" /\ Len(log[t].ch) < LogBufferLength
       /\ log' = [log EXCEPT ![t].ch = Append(@, RecordOf(g))]
       /\ accepted' = [accepted EXCEPT ![t] = Append(@, RecordOf(g))]
  /\ left' = [left EXCEPT ![g] = Tail(@)]
  /\ UNCHANGED <<proc, config, disk, made, issued, boots, diskAtStart>>

-----------------------------------------------------------------------------
(* The goroutines of the writers. *)

Set(t, pc) == log' = [log EXCEPT ![t].pc = pc]
Others == UNCHANGED <<proc, config, calls, history>>

(* intRotate failed: at the start NewFileLogWriter returns nil, which      *)
(* LoadConfiguration dereferences; later the goroutine returns, with the   *)
(* record it has in hand.                                                  *)
GiveUp(t) ==
  IF log[t].hand = None
    THEN Down /\ UNCHANGED history
    ELSE Set(t, "dead") /\ Others

(* Mutant: the number after the last is used as well.                      *)
RotateRenameBeyond(t) ==
  /\ log[t].pc = "rename"
  /\ IF log[t].filter.rotate /\ fileExists
       THEN /\ numbers <= MaxOld
            /\ numbers' = numbers + 1
            /\ old' = old \o file /\ file' = <<>> /\ fileExists' = FALSE
       ELSE UNCHANGED disk
  /\ Set(t, "open") /\ Others

(* intRotate up to the rename: the next free number, if there is one.      *)
RotateRename(t) ==
  /\ log[t].pc = "rename"
  /\ \/ /\ log[t].filter.rotate /\ fileExists /\ numbers < MaxOld
        /\ numbers' = numbers + 1
        /\ old' = old \o file /\ file' = <<>> /\ fileExists' = FALSE
        /\ Set(t, "open") /\ Others
     \/ /\ ~log[t].filter.rotate \/ ~fileExists
        /\ Set(t, "open") /\ Others
        /\ UNCHANGED disk
     \/ /\ log[t].filter.rotate /\ fileExists
        /\ GiveUp(t)
        /\ UNCHANGED disk

Opened(t) ==
  /\ log' = [log EXCEPT ![t].curlines = 0,
                        ![t].pc = IF log[t].hand = None THEN "wait" ELSE "write"]
  /\ Others

(* Mutant: the file is opened with O_TRUNC instead of O_APPEND, and so, as *)
(* the comment of SetRotate says, overwritten when it is not renamed.      *)
RotateOpenTruncating(t) ==
  /\ log[t].pc = "open"
  /\ Opened(t) /\ fileExists' = TRUE /\ file' = <<>>
  /\ UNCHANGED <<numbers, old>>

(* intRotate from the open on: O_APPEND keeps what the file holds.         *)
RotateOpen(t) ==
  /\ log[t].pc = "open"
  /\ \/ Opened(t) /\ fileExists' = TRUE /\ UNCHANGED <<file, numbers, old>>
     \/ GiveUp(t) /\ UNCHANGED disk

(* Mutant: one line too many.                                              *)
LinesReachedLate(w) == w.filter.maxlines > 0 /\ w.curlines > w.filter.maxlines

LinesReached(w) == w.filter.maxlines > 0 /\ w.curlines >= w.filter.maxlines

(* A record is received.  With a limit on the size or a daily rotation     *)
(* any record may be the one that finds it reached.                        *)
FileTake(t) ==
  /\ IsFile(log[t].filter) /\ log[t].pc = "wait" /\ log[t].ch # <<>>
  /\ \E pc \in {"rename", "write"} :
       /\ LinesReached(log[t]) => pc = "rename"
       /\ pc = "rename" => LinesReached(log[t]) \/ log[t].filter.timed
       /\ log' = [log EXCEPT ![t].hand = Head(log[t].ch), ![t].ch = Tail(@), ![t].pc = pc]
  /\ Others /\ UNCHANGED disk

(* Mutant: a failed write is reported and the loop goes on.                *)
FileWriteOrGoOn(t) ==
  /\ log[t].pc = "write"
  /\ \/ file' = Append(file, log[t].hand)
     \/ file' = file
  /\ log' = [log EXCEPT ![t].hand = None, ![t].curlines = @ + 1, ![t].pc = "wait"]
  /\ Others /\ UNCHANGED <<fileExists, numbers, old>>

FileWrite(t) ==
  /\ log[t].pc = "write"
  /\ \/ /\ file' = Append(file, log[t].hand)
        /\ log' = [log EXCEPT ![t].hand = None, ![t].curlines = @ + 1, ![t].pc = "wait"]
     \/ /\ Set(t, "dead")
        /\ UNCHANGED file
  /\ Others /\ UNCHANGED <<fileExists, numbers, old>>

(* Mutant: the goroutine of a socket returns when a write fails.           *)
ChannelTakeOrDie(t) ==
  /\ ~IsFile(log[t].filter)
  /\ log[t].pc = "wait" /\ log[t].ch # <<>>
  /\ \E pc \in {"wait", "dead"} :
       log' = [log EXCEPT ![t].ch = Tail(@), ![t].pc = pc]
  /\ Others /\ UNCHANGED disk

(* A console or a socket: a record that cannot be written is lost (the     *)
(* error of Write is never the bare EPIPE that would reconnect) and the    *)
(* loop goes on.                                                           *)
ChannelTake(t) ==
  /\ ~IsFile(log[t].filter)
  /\ log[t].pc = "wait" /\ log[t].ch # <<>>
  /\ log' = [log EXCEPT ![t].ch = Tail(@)]
  /\ Others /\ UNCHANGED disk

WriterStep(t) ==
  /\ t \in DOMAIN log
  /\ \/ FileTake(t) \/ RotateRename(t) \/ RotateOpen(t) \/ FileWrite(t)
     \/ ChannelTake(t)

Next ==
  \/ Boot \/ LoadFilter \/ Loaded \/ Kill
  \/ \E g \in Goroutine : LogCall(g) \/ LogWrite(g)
  \/ \E t \in Tags : WriterStep(t)

Spec == Init /\ [][Next]_vars

(* Goroutines that can run do; nobody has to call the logger.              *)
Fairness ==
  /\ \A g \in Goroutine : WF_vars(LogWrite(g))
  /\ \A t \in Tags : WF_vars(WriterStep(t))

FairSpec == Spec /\ Fairness

-----------------------------------------------------------------------------
(* Properties. *)

(* Whatever the order of rotations, failed starts, kills and new           *)
(* configurations, what was ever written stays on disk, in order: a rename *)
(* never hits an old file and no open empties one.                         *)
LogOnlyGrows == [][IsPrefix(OnDisk, OnDisk')]_vars

Hand(w) == IF w.hand = None THEN <<>> ELSE <<w.hand>>

(* The file, its rotated parts, the writer's hand and its channel always   *)
(* add up to what was handed to the writer since the start: nothing is     *)
(* skipped or written twice around a rotation, and after an error nothing  *)
(* is written behind the gap.                                              *)
FileComplete ==
  \A t \in DOMAIN log : IsFile(log[t].filter) =>
    OnDisk \o Hand(log[t]) \o log[t].ch = diskAtStart \o accepted[t]

(* With rotation, the line counter is the length of the file, over         *)
(* restarts and reconfigurations, and no file gets longer than maxlines.   *)
LinesCounted ==
  \A t \in DOMAIN log :
    LET w == log[t] IN
    (IsFile(w.filter) /\ w.filter.rotate /\ w.pc \in {"wait", "write"}) =>
      /\ Len(file) = w.curlines
      /\ w.filter.maxlines > 0 => Len(file) <= w.filter.maxlines

(* Every filter has received exactly the records its level admits of each  *)
(* goroutine, in the order of the calls, but for a call that is still at   *)
(* work.                                                                   *)
Expected(g, t) ==
  {r \in {[from |-> g, n |-> n, level |-> issued[g][n]] : n \in 1..Len(issued[g])} :
     Admits(t, r.level) /\ ~(r.n = Len(issued[g]) /\ t \in Range(left[g]))}

DispatchComplete ==
  \A t \in DOMAIN log, g \in Goroutine :
    LET places == {i \in DOMAIN accepted[t] : accepted[t][i].from = g} IN
    /\ \A i, j \in places : i < j => accepted[t][i].n < accepted[t][j].n
    /\ {accepted[t][i] : i \in places} = Expected(g, t)

(* The two ways a writer is lost for good.                                 *)
Lost(t) ==
  \/ IsFile(log[t].filter) /\ log[t].pc = "dead"
  \/ log[t].filter.type = "socket" /\ log[t].pc = "nil"

(* A goroutine that logs gets on with its work, unless its record is for a *)
(* file writer that gave up or a socket that was never connected; one full *)
(* channel of a slow writer only delays it.                                *)
LogCallReturns ==
  \A g \in Goroutine :
    left[g] # <<>> ~> left[g] = <<>> \/ Lost(Head(left[g]))
=============================================================================
