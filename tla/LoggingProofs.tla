---------------------------- MODULE LoggingProofs ----------------------------
(* Theorems about Logging, for any configurations, goroutines and levels,  *)
(* any capacity of the channels and any number of calls, files and starts. *)
EXTENDS Logging, SequenceTheorems, FiniteSetTheorems, TLAPS

(* What holds of one writer w of the filter with tag t, when f is the log  *)
(* file, d what is on disk, and a what was there at the start followed by  *)
(* what the writer has accepted.  In the middle of a rotation the line     *)
(* counter says nothing, but a file about to be opened is then empty, and  *)
(* a record about to be written has a line left; x says whether the file   *)
(* exists, as it does for a writer that is not in the middle of one.       *)
Shape(t, w) == w \in WriterRecord /\ w.filter.tag = t /\ Len(w.ch) <= LogBufferLength

Stage(w, x) ==
  /\ w.pc \in {"rename", "open", "write"} => IsFile(w.filter)
  /\ w.pc = "wait" => w.hand = None
  /\ w.pc = "write" => w.hand # None
  /\ IsFile(w.filter) /\ w.pc \in {"wait", "write"} => x

Lines(w, f) ==
  IsFile(w.filter) /\ w.filter.rotate =>
    /\ w.pc \in {"wait", "write"} =>
         /\ Len(f) = w.curlines
         /\ w.filter.maxlines > 0 => Len(f) <= w.filter.maxlines
    /\ w.pc = "write" /\ w.filter.maxlines > 0 => w.curlines < w.filter.maxlines
    /\ w.pc = "open" => f = <<>>

Complete(w, d, a) == IsFile(w.filter) => d \o Hand(w) \o w.ch = a

Writers ==
  \A t \in DOMAIN log :
    /\ Shape(t, log[t]) /\ Stage(log[t], fileExists)
    /\ Lines(log[t], file)
    /\ Complete(log[t], OnDisk, diskAtStart \o accepted[t])

DiskOK ==
  /\ old \in Seq(Record) /\ file \in Seq(Record) /\ fileExists \in BOOLEAN
  /\ ~fileExists => file = <<>>
  /\ numbers \in 0..MaxOld

(* A goroutine serves filters only after a call.                           *)
CallsOK ==
  /\ made \in 0..MaxCalls /\ boots \in 0..MaxBoots
  /\ issued \in [Goroutine -> Seq(Level)] /\ left \in [Goroutine -> Seq(DOMAIN log)]
  /\ \A g \in Goroutine : Len(issued[g]) <= made /\ (left[g] # <<>> => issued[g] # <<>>)

(* The log file has one writer, now and when the rest of the filters is    *)
(* installed.                                                              *)
OneFile ==
  /\ DOMAIN log \subseteq Tags /\ IsFiniteSet(DOMAIN log)
  /\ \A t, u \in DOMAIN log : IsFile(log[t].filter) /\ IsFile(log[u].filter) => t = u
  /\ config \in Seq(Filters)
  /\ \A i, j \in DOMAIN config : IsFile(config[i]) /\ IsFile(config[j]) => i = j
  /\ \A t \in DOMAIN log, i \in DOMAIN config :
       ~(IsFile(log[t].filter) /\ IsFile(config[i]))

(* Nobody logs and nothing is written before the start is complete.        *)
Start ==
  /\ proc \in {"down", "loading", "running"}
  /\ proc = "down" => DOMAIN log = {} /\ config = <<>>
  /\ proc \in {"down", "loading"} => NoCalls
  /\ proc = "loading" =>
       /\ OnDisk = diskAtStart /\ accepted = [t \in Tags |-> <<>>]
       /\ \A t \in DOMAIN log : log[t].ch = <<>> /\ log[t].hand = None
  /\ proc # "down" => accepted \in [Tags -> Seq(Record)] /\ diskAtStart \in Seq(Record)

Inv == DiskOK /\ CallsOK /\ OneFile /\ Start /\ Writers

-----------------------------------------------------------------------------
LEMMA InitInv == Init => Inv
<1> SUFFICES ASSUME Init PROVE Inv
  OBVIOUS
<1>1. DOMAIN log = {} /\ IsFiniteSet(DOMAIN log)
  BY FS_EmptySet DEF Init
<1>2. DiskOK
  <2>1. 0 \in 0..MaxOld /\ <<>> \in Seq(Record)
    BY LoggingAssumption
  <2> QED
    BY <2>1 DEF Init, DiskOK
<1>3. CallsOK
  BY LoggingAssumption DEF Init, CallsOK, NoCalls
<1>4. OneFile
  BY <1>1 DEF Init, OneFile
<1>5. Start
  BY <1>1 DEF Init, Start
<1>6. Writers
  BY <1>1 DEF Writers
<1> QED
  BY <1>2, <1>3, <1>4, <1>5, <1>6 DEF Inv

(* The end of the process, for whatever reason.                             *)
LEMMA DownInv == ASSUME Inv, Down, UNCHANGED <<disk, history>> PROVE Inv'
<1>1. DOMAIN log' = {} /\ IsFiniteSet(DOMAIN log')
  BY FS_EmptySet DEF Down
<1>2. DiskOK'
  BY DEF Inv, DiskOK, disk
<1>3. CallsOK'
  BY DEF Inv, CallsOK, Down, history
<1>4. OneFile'
  BY <1>1 DEF Down, OneFile
<1>5. Start'
  BY <1>1 DEF Down, Start, NoCalls
<1>6. Writers'
  BY <1>1 DEF Writers
<1> QED
  BY <1>2, <1>3, <1>4, <1>5, <1>6 DEF Inv

LEMMA BootInv == ASSUME Inv, Boot PROVE Inv'
<1>1. DOMAIN log' = {} /\ IsFiniteSet(DOMAIN log')
  BY FS_EmptySet DEF Boot
<1>2. DiskOK'
  BY DEF Inv, DiskOK, disk, Boot
<1>3. CallsOK'
  <2>1. NoCalls /\ boots' \in 0..MaxBoots
    BY LoggingAssumption DEF Inv, Start, Boot, CallsOK
  <2> QED
    BY <2>1 DEF Inv, CallsOK, Boot, calls, NoCalls
<1>4. OneFile'
  BY <1>1, ConfigurationAssumption DEF Boot, OneFile
<1>5. Start'
  <2>1. OnDisk \in Seq(Record) /\ OnDisk' = OnDisk
    BY ConcatProperties DEF OnDisk, Inv, DiskOK, Boot, disk
  <2> QED
    BY <1>1, <2>1 DEF Boot, Inv, Start, NoCalls, calls
<1>6. Writers'
  BY <1>1 DEF Writers
<1> QED
  BY <1>2, <1>3, <1>4, <1>5, <1>6 DEF Inv

(* A filter whose turn it is is like no filter before or after it.          *)
LEMMA ConfigTail ==
  ASSUME Inv, config # <<>>
  PROVE  /\ Head(config) \in Filters /\ Tail(config) \in Seq(Filters)
         /\ \A i \in DOMAIN Tail(config) : ~(IsFile(Head(config)) /\ IsFile(Tail(config)[i]))
         /\ \A i, j \in DOMAIN Tail(config) :
              IsFile(Tail(config)[i]) /\ IsFile(Tail(config)[j]) => i = j
         /\ \A t \in DOMAIN log :
              /\ ~(IsFile(log[t].filter) /\ IsFile(Head(config)))
              /\ \A i \in DOMAIN Tail(config) :
                   ~(IsFile(log[t].filter) /\ IsFile(Tail(config)[i]))
<1> DEFINE c == config
           d == Tail(c)
<1>1. c \in Seq(Filters)
  BY DEF Inv, OneFile
<1>2. /\ Head(c) = c[1] /\ Head(c) \in Filters /\ d \in Seq(Filters)
      /\ Len(d) = Len(c) - 1 /\ Len(c) \in Nat /\ Len(c) > 0
      /\ \A i \in 1..Len(d) : d[i] = c[i + 1]
  BY <1>1, HeadTailProperties, EmptySeq
<1>3. DOMAIN c = 1..Len(c) /\ DOMAIN d = 1..Len(d)
  BY <1>1, <1>2, LenProperties
<1>4. /\ 1 \in DOMAIN c
      /\ \A i \in DOMAIN d : i \in Nat /\ i >= 1 /\ i + 1 \in DOMAIN c /\ d[i] = c[i + 1]
  BY <1>2, <1>3
<1>5. /\ \A i, j \in DOMAIN c : IsFile(c[i]) /\ IsFile(c[j]) => i = j
      /\ \A t \in DOMAIN log, i \in DOMAIN c : ~(IsFile(log[t].filter) /\ IsFile(c[i]))
  BY DEF Inv, OneFile
<1> HIDE DEF c, d
<1>6. /\ Head(c) \in Filters /\ d \in Seq(Filters)
      /\ \A i \in DOMAIN d : ~(IsFile(Head(c)) /\ IsFile(d[i]))
      /\ \A i, j \in DOMAIN d : IsFile(d[i]) /\ IsFile(d[j]) => i = j
      /\ \A t \in DOMAIN log :
           /\ ~(IsFile(log[t].filter) /\ IsFile(Head(c)))
           /\ \A i \in DOMAIN d : ~(IsFile(log[t].filter) /\ IsFile(d[i]))
  <2>1. \A i \in DOMAIN d : ~(IsFile(Head(c)) /\ IsFile(d[i]))
    BY <1>2, <1>4, <1>5
  <2>2. \A i, j \in DOMAIN d : IsFile(d[i]) /\ IsFile(d[j]) => i = j
    BY <1>4, <1>5
  <2>3. \A t \in DOMAIN log :
          /\ ~(IsFile(log[t].filter) /\ IsFile(Head(c)))
          /\ \A i \in DOMAIN d : ~(IsFile(log[t].filter) /\ IsFile(d[i]))
    BY <1>2, <1>4, <1>5
  <2> QED
    BY <1>2, <2>1, <2>2, <2>3
<1> QED
  BY <1>6 DEF c, d

LEMMA SkipInv ==
  ASSUME Inv, config # <<>>, config' = Tail(config),
         UNCHANGED <<proc, log, calls, disk, history>>, proc = "loading"
  PROVE  Inv'
<1>1. OneFile'
  BY ConfigTail DEF Inv, OneFile
<1>2. Writers'
  BY DEF Inv, Writers, disk, history, OnDisk
<1>3. CallsOK' /\ DiskOK'
  BY DEF Inv, CallsOK, DiskOK, calls, disk, history
<1>4. Start'
  BY DEF Inv, Start, OnDisk, NoCalls, calls, disk, history
<1> QED
  BY <1>1, <1>2, <1>3, <1>4 DEF Inv

LEMMA InstallInv ==
  ASSUME Inv, config # <<>>, NEW pc \in {"wait", "rename", "nil"},
         Install(Head(config), pc), pc = "rename" => IsFile(Head(config)),
         IsFile(Head(config)) => pc = "rename",
         UNCHANGED <<calls, disk, history>>, proc = "loading"
  PROVE  Inv'
<1> DEFINE f == Head(config)
           w == Writer(f, pc)
<1>1. f \in Filters /\ f.tag \in Tags
  BY ConfigTail DEF Tags
<1>2. /\ DOMAIN log' = DOMAIN log \cup {f.tag}
      /\ log'[f.tag] = w
      /\ \A t \in DOMAIN log \ {f.tag} : log'[t] = log[t]
      /\ config' = Tail(config) /\ proc' = proc
  BY DEF Install
<1>3. /\ w \in WriterRecord /\ w.filter = f /\ w.ch = <<>> /\ w.hand = None
      /\ w.pc = pc /\ Len(w.ch) = 0
  BY <1>1 DEF Writer, WriterRecord, WriterPc
<1> HIDE DEF w
<1>4. NoCalls /\ OnDisk = diskAtStart /\ accepted = [t \in Tags |-> <<>>]
      /\ OnDisk \in Seq(Record)
  BY DEF Inv, Start
<1>5. OneFile'
  <2>1. DOMAIN log' \subseteq Tags /\ IsFiniteSet(DOMAIN log')
    BY <1>1, <1>2, FS_AddElement DEF Inv, OneFile
  <2>2. \A t, u \in DOMAIN log' : IsFile(log'[t].filter) /\ IsFile(log'[u].filter) => t = u
    BY <1>2, <1>3, ConfigTail DEF Inv, OneFile
  <2>3. \A t \in DOMAIN log', i \in DOMAIN config' :
          ~(IsFile(log'[t].filter) /\ IsFile(config'[i]))
    BY <1>2, <1>3, ConfigTail
  <2> QED
    BY <1>2, <2>1, <2>2, <2>3, ConfigTail DEF OneFile
<1>6. CallsOK' /\ DiskOK'
  BY <1>4 DEF Inv, CallsOK, DiskOK, calls, disk, history, NoCalls
<1>7. Start'
  BY <1>2, <1>3 DEF Inv, Start, OnDisk, NoCalls, calls, disk, history
<1>8. Writers'
  <2>1. Shape(f.tag, w) /\ Stage(w, fileExists)
    BY <1>3, LoggingAssumption DEF Shape, Stage
  <2>2. Lines(w, file)
    BY <1>3 DEF Lines
  <2>3. Complete(w, OnDisk, diskAtStart \o accepted[f.tag])
    <3>1. Hand(w) = <<>> /\ accepted[f.tag] = <<>>
      BY <1>1, <1>3, <1>4 DEF Hand
    <3>2. OnDisk \o <<>> = OnDisk
      BY <1>4, ConcatEmptySeq
    <3> QED
      BY <1>3, <1>4, <3>1, <3>2 DEF Complete
  <2>4. OnDisk' = OnDisk /\ UNCHANGED <<file, fileExists, diskAtStart, accepted>>
    BY DEF OnDisk, disk, history
  <2> QED
    BY <1>2, <2>1, <2>2, <2>3, <2>4 DEF Inv, Writers
<1> QED
  BY <1>5, <1>6, <1>7, <1>8 DEF Inv

LEMMA LoadFilterInv == ASSUME Inv, LoadFilter PROVE Inv'
<1> DEFINE f == Head(config)
<1>1. proc = "loading" /\ config # <<>> /\ UNCHANGED <<disk, history>>
  BY DEF LoadFilter
<1>2. CASE Down
  BY <1>1, <1>2, DownInv
<1>3. CASE config' = Tail(config) /\ UNCHANGED <<proc, log, calls>>
  BY <1>1, <1>3, SkipInv
<1>4. CASE /\ UNCHANGED calls
           /\ \/ xmlToConsoleLogWriter(f) \/ xmlToFileLogWriter(f)
              \/ xmlToXMLLogWriter(f) \/ xmlToSocketLogWriter(f)
  <2>1. \E pc \in {"wait", "rename", "nil"} :
          Install(f, pc) /\ (pc = "rename" <=> IsFile(f))
    BY <1>4 DEF xmlToConsoleLogWriter, xmlToFileLogWriter, xmlToXMLLogWriter,
                xmlToSocketLogWriter, IsFile, FileTypes
  <2> QED
    BY <1>1, <1>4, <2>1, InstallInv
<1> QED
  BY <1>2, <1>3, <1>4 DEF LoadFilter

LEMMA LoadedInv == ASSUME Inv, Loaded PROVE Inv'
<1>1. OneFile' /\ Writers'
  BY DEF Inv, OneFile, Writers, disk, history, OnDisk, Loaded
<1>2. CallsOK' /\ DiskOK'
  BY DEF Inv, CallsOK, DiskOK, calls, disk, history, Loaded
<1>3. Start'
  BY DEF Inv, Start, NoCalls, calls, disk, history, Loaded
<1> QED
  BY <1>1, <1>2, <1>3 DEF Inv

-----------------------------------------------------------------------------
(* A log call. *)

LEMMA LogCallInv == ASSUME Inv, NEW g \in Goroutine, LogCall(g) PROVE Inv'
<1>1. PICK level \in Level : intLogf(g, level)
  BY DEF LogCall
<1> DEFINE S == {t \in DOMAIN log : Admits(t, level)}
<1>2. PICK order \in SetToSeqs(S) : left' = [left EXCEPT ![g] = order]
  BY <1>1 DEF intLogf
<1>3. order \in Seq(DOMAIN log)
  <2>1. S \in SUBSET DOMAIN log /\ IsFiniteSet(DOMAIN log)
    BY DEF Inv, OneFile
  <2> HIDE DEF S
  <2>2. IsFiniteSet(S) /\ Cardinality(S) \in Nat
    BY <2>1, FS_Subset, FS_CardinalityType
  <2>3. order \in [1..Cardinality(S) -> S]
    BY DEF SetToSeqs
  <2>4. order \in [1..Cardinality(S) -> DOMAIN log]
    BY <2>1, <2>3
  <2> QED
    BY <2>2, <2>4, SeqDef
<1>4. /\ issued[g] \in Seq(Level) /\ made \in Nat /\ Len(issued[g]) \in Nat
      /\ Len(issued[g]) <= made
  BY LoggingAssumption DEF Inv, CallsOK
<1>5. /\ Append(issued[g], level) \in Seq(Level) /\ Append(issued[g], level) # <<>>
      /\ Len(Append(issued[g], level)) = Len(issued[g]) + 1
  BY <1>4, AppendProperties
<1>6. issued' = [issued EXCEPT ![g] = Append(issued[g], level)]
  BY <1>1 DEF intLogf
<1>7. made' = made + 1 /\ made < MaxCalls /\ proc = "running"
      /\ UNCHANGED <<proc, config, log, disk, history>>
  BY <1>1 DEF intLogf
<1>8. CallsOK'
  <2>1. issued' \in [Goroutine -> Seq(Level)] /\ left' \in [Goroutine -> Seq(DOMAIN log')]
    BY <1>2, <1>3, <1>5, <1>6, <1>7 DEF Inv, CallsOK
  <2>2. made' \in 0..MaxCalls /\ boots' \in 0..MaxBoots
    BY <1>4, <1>7, LoggingAssumption DEF Inv, CallsOK, history
  <2>3. ASSUME NEW h \in Goroutine
        PROVE  Len(issued'[h]) <= made' /\ (left'[h] # <<>> => issued'[h] # <<>>)
    <3>1. CASE h = g
      BY <1>4, <1>5, <1>6, <1>7, <3>1 DEF Inv, CallsOK
    <3>2. CASE h # g
      <4>1. issued'[h] = issued[h] /\ left'[h] = left[h]
        BY <1>2, <1>6, <3>2 DEF Inv, CallsOK
      <4>2. issued[h] \in Seq(Level)
        BY DEF Inv, CallsOK
      <4>3. Len(issued[h]) \in Nat /\ Len(issued[h]) <= made
        BY <4>2 DEF Inv, CallsOK
      <4> QED
        BY <1>4, <1>7, <4>1, <4>3 DEF Inv, CallsOK
    <3> QED
      BY <3>1, <3>2
  <2> QED
    BY <2>1, <2>2, <2>3 DEF CallsOK
<1>9. OneFile' /\ Writers' /\ DiskOK'
  BY <1>7 DEF Inv, OneFile, Writers, DiskOK, disk, history, OnDisk
<1>10. Start'
  BY <1>7 DEF Inv, Start, disk, history, OnDisk
<1> QED
  BY <1>8, <1>9, <1>10 DEF Inv

(* The record that is sent is one the types admit.                          *)
LEMMA RecordType ==
  ASSUME Inv, NEW g \in Goroutine, left[g] # <<>> PROVE RecordOf(g) \in Record
<1>1. issued[g] \in Seq(Level) /\ issued[g] # <<>> /\ Len(issued[g]) <= made
      /\ made \in 0..MaxCalls
  BY DEF Inv, CallsOK
<1>2. Len(issued[g]) \in Nat \ {0}
  BY <1>1, EmptySeq
<1>3. Len(issued[g]) \in 1..MaxCalls
  BY <1>1, <1>2, LoggingAssumption
<1>4. Last(issued[g]) \in Level
  BY <1>1, <1>2, ElementOfSeq DEF Last
<1> QED
  BY <1>3, <1>4 DEF RecordOf, Record

LEMMA ConcatAppend ==
  ASSUME NEW S, NEW a \in Seq(S), NEW b \in Seq(S), NEW e \in S
  PROVE  a \o Append(b, e) = Append(a \o b, e)
<1>1. <<e>> \in Seq(S)
  OBVIOUS
<1>2. a \o (b \o <<e>>) = (a \o b) \o <<e>>
  BY <1>1, ConcatAssociative
<1>3. a \o b \in Seq(S)
  BY ConcatProperties
<1> QED
  BY <1>2, <1>3, AppendIsConcat

LEMMA HandType ==
  ASSUME NEW w \in WriterRecord PROVE Hand(w) \in Seq(Record) /\ w.ch \in Seq(Record)
  BY DEF WriterRecord, Hand

LEMMA LogWriteInv == ASSUME Inv, NEW g \in Goroutine, LogWrite(g) PROVE Inv'
<1> DEFINE t == Head(left[g])
           r == RecordOf(g)
<1>1. left[g] # <<>> /\ left[g] \in Seq(DOMAIN log)
  BY DEF LogWrite, Inv, CallsOK
<1>2. t \in DOMAIN log /\ Tail(left[g]) \in Seq(DOMAIN log)
  BY <1>1, HeadTailProperties
<1>3. r \in Record
  BY <1>1, RecordType
<1>4. /\ Len(log[t].ch) < LogBufferLength
      /\ log' = [log EXCEPT ![t].ch = Append(log[t].ch, r)]
      /\ accepted' = [accepted EXCEPT ![t] = Append(accepted[t], r)]
      /\ left' = [left EXCEPT ![g] = Tail(left[g])]
      /\ UNCHANGED <<proc, config, disk, made, issued, boots, diskAtStart>>
  BY DEF LogWrite
<1> HIDE DEF t, r
<1>5. t \in Tags /\ Shape(t, log[t]) /\ Stage(log[t], fileExists) /\ Lines(log[t], file)
      /\ Complete(log[t], OnDisk, diskAtStart \o accepted[t])
  BY <1>2 DEF Inv, OneFile, Writers
<1> DEFINE w == [filter |-> log[t].filter, pc |-> log[t].pc, ch |-> Append(log[t].ch, r),
                 hand |-> log[t].hand, curlines |-> log[t].curlines]
<1>6. /\ DOMAIN log' = DOMAIN log /\ log'[t] = w
      /\ \A u \in DOMAIN log \ {t} : log'[u] = log[u]
  BY <1>2, <1>4, <1>5 DEF Shape, WriterRecord
<1>7. proc = "running"
  BY <1>1 DEF Inv, Start, NoCalls
<1>8. /\ accepted \in [Tags -> Seq(Record)] /\ accepted[t] \in Seq(Record)
      /\ diskAtStart \in Seq(Record)
  BY <1>5, <1>7 DEF Inv, Start
<1>9. Append(accepted[t], r) \in Seq(Record)
  BY <1>3, <1>8
<1>10. CallsOK'
  <2>1. left' \in [Goroutine -> Seq(DOMAIN log')]
    BY <1>2, <1>4, <1>6 DEF Inv, CallsOK
  <2>2. \A h \in Goroutine : left'[h] # <<>> => left[h] # <<>>
    BY <1>1, <1>4 DEF Inv, CallsOK
  <2> QED
    BY <1>4, <2>1, <2>2 DEF Inv, CallsOK
<1>11. log[t].ch \in Seq(Record) /\ log[t] \in WriterRecord
  BY <1>5 DEF Shape, WriterRecord
<1>12. /\ w \in WriterRecord /\ Len(w.ch) = Len(log[t].ch) + 1 /\ w.filter = log[t].filter
       /\ Hand(w) = Hand(log[t])
  BY <1>3, <1>11, AppendProperties DEF WriterRecord, Hand
<1>13. Shape(t, w) /\ Stage(w, fileExists) /\ Lines(w, file)
  <2>1. Len(w.ch) <= LogBufferLength
    BY <1>4, <1>11, <1>12, LoggingAssumption
  <2> QED
    BY <1>5, <1>12, <2>1 DEF Shape, Stage, Lines
<1>14. ASSUME IsFile(w.filter)
       PROVE  OnDisk \o Hand(w) \o w.ch = diskAtStart \o Append(accepted[t], r)
  <2>1. OnDisk \o Hand(w) \o log[t].ch = diskAtStart \o accepted[t]
    BY <1>5, <1>12, <1>14 DEF Complete
  <2>2. OnDisk \in Seq(Record) /\ OnDisk \o Hand(w) \in Seq(Record)
    BY <1>12, HandType, ConcatProperties DEF OnDisk, Inv, DiskOK
  <2>3. OnDisk \o Hand(w) \o Append(log[t].ch, r) = Append(OnDisk \o Hand(w) \o log[t].ch, r)
    <3> DEFINE d == OnDisk \o Hand(w)
    <3>1. d \in Seq(Record)
      BY <2>2
    <3> HIDE DEF d
    <3>2. d \o Append(log[t].ch, r) = Append(d \o log[t].ch, r)
      BY <1>3, <1>11, <3>1, ConcatAppend
    <3> QED
      BY <3>2 DEF d
  <2>4. diskAtStart \o Append(accepted[t], r) = Append(diskAtStart \o accepted[t], r)
    BY <1>3, <1>8, ConcatAppend
  <2> QED
    BY <2>1, <2>3, <2>4
<1>15. Writers'
  <2>1. \A u \in DOMAIN log \ {t} : accepted'[u] = accepted[u]
    BY <1>4, <1>8 DEF Inv, OneFile
  <2>2. accepted'[t] = Append(accepted[t], r)
    BY <1>4, <1>5, <1>8
  <2>3. OnDisk' = OnDisk /\ UNCHANGED <<file, fileExists, diskAtStart>>
    BY <1>4 DEF OnDisk, disk
  <2>4. Complete(w, OnDisk, diskAtStart \o Append(accepted[t], r))
    BY <1>14 DEF Complete
  <2> HIDE DEF w
  <2> QED
    BY <1>6, <1>13, <2>1, <2>2, <2>3, <2>4 DEF Inv, Writers
<1>16. OneFile'
  BY <1>4, <1>6, <1>12 DEF Inv, OneFile
<1>17. DiskOK'
  BY <1>4 DEF Inv, DiskOK, disk
<1>18. Start'
  BY <1>4, <1>5, <1>7, <1>8, <1>9 DEF Inv, Start
<1> QED
  BY <1>10, <1>15, <1>16, <1>17, <1>18 DEF Inv

-----------------------------------------------------------------------------
(* A step of one writer, which turns its record into w.                     *)

Moves(t, w) ==
  /\ DOMAIN log' = DOMAIN log /\ log'[t] = w
  /\ \A u \in DOMAIN log \ {t} : log'[u] = log[u]

(* Only the writer of the file changes anything on disk, so the others are *)
(* not concerned.                                                          *)
LEMMA MovesInv ==
  ASSUME Inv, NEW t \in DOMAIN log, NEW w, Moves(t, w), Others,
         IsFile(log[t].filter) \/ UNCHANGED disk, w.filter = log[t].filter,
         DiskOK', Shape(t, w), Stage(w, fileExists'), Lines(w, file'),
         Complete(w, OnDisk', diskAtStart \o accepted[t]),
         proc = "loading" => OnDisk' = OnDisk /\ w.ch = <<>> /\ w.hand = None
  PROVE  Inv'
<1>1. /\ DOMAIN log' = DOMAIN log /\ log'[t] = w
      /\ \A u \in DOMAIN log : log'[u].filter = log[u].filter
      /\ UNCHANGED <<proc, config, calls, history>>
  BY DEF Moves, Others
<1>2. OneFile'
  BY <1>1 DEF Inv, OneFile
<1>3. CallsOK'
  BY <1>1 DEF Inv, CallsOK, calls, history
<1>4. Start'
  BY <1>1 DEF Inv, Start, NoCalls, Moves, calls, history
<1>5. Writers'
  <2> SUFFICES ASSUME NEW u \in DOMAIN log
               PROVE  /\ Shape(u, log'[u]) /\ Stage(log'[u], fileExists')
                      /\ Lines(log'[u], file')
                      /\ Complete(log'[u], OnDisk', diskAtStart \o accepted[u])
    BY <1>1 DEF Writers, history
  <2>1. CASE u = t
    BY <1>1, <2>1
  <2>2. CASE u # t
    <3>1. log'[u] = log[u]
      BY <2>2 DEF Moves
    <3>2. /\ Shape(u, log[u]) /\ Stage(log[u], fileExists) /\ Lines(log[u], file)
          /\ Complete(log[u], OnDisk, diskAtStart \o accepted[u])
      BY DEF Inv, Writers
    <3>3. CASE UNCHANGED disk
      BY <3>1, <3>2, <3>3 DEF disk, OnDisk
    <3>4. CASE ~IsFile(log[u].filter)
      BY <3>1, <3>2, <3>4 DEF Shape, Stage, Lines, Complete
    <3> QED
      BY <2>2, <3>3, <3>4 DEF Inv, OneFile
  <2> QED
    BY <2>1, <2>2
<1> QED
  BY <1>2, <1>3, <1>4, <1>5 DEF Inv

(* What is known of the writer that moves. *)
LEMMA WriterFacts ==
  ASSUME Inv, NEW t \in DOMAIN log
  PROVE  /\ log[t] \in WriterRecord /\ Shape(t, log[t]) /\ Stage(log[t], fileExists)
         /\ Lines(log[t], file) /\ Complete(log[t], OnDisk, diskAtStart \o accepted[t])
         /\ DiskOK /\ OnDisk \in Seq(Record)
         /\ log[t].ch \in Seq(Record) /\ log[t].curlines \in Nat
         /\ log[t].filter.maxlines \in Nat /\ log[t].hand \in Record \cup {None}
         /\ proc = "loading" => log[t].ch = <<>> /\ log[t].hand = None
<1>1. /\ Shape(t, log[t]) /\ Stage(log[t], fileExists) /\ DiskOK
      /\ Lines(log[t], file) /\ Complete(log[t], OnDisk, diskAtStart \o accepted[t])
      /\ proc = "loading" => log[t].ch = <<>> /\ log[t].hand = None
  BY DEF Inv, Writers, Start
<1>2. log[t] \in WriterRecord
  BY <1>1 DEF Shape
<1>3. /\ log[t].ch \in Seq(Record) /\ log[t].curlines \in Nat /\ log[t].filter \in Filters
      /\ log[t].hand \in Record \cup {None}
  BY <1>2 DEF WriterRecord
<1>4. OnDisk \in Seq(Record)
  BY <1>1, ConcatProperties DEF DiskOK, OnDisk
<1> QED
  BY <1>1, <1>2, <1>3, <1>4, ConfigurationAssumption

LEMMA TakeOne ==
  ASSUME NEW S, NEW d \in Seq(S), NEW c \in Seq(S), c # <<>>
  PROVE  (d \o <<>>) \o c = (d \o <<Head(c)>>) \o Tail(c)
<1>1. Head(c) \in S /\ Tail(c) \in Seq(S) /\ <<Head(c)>> \in Seq(S)
  BY HeadTailProperties
<1>2. c = <<Head(c)>> \o Tail(c)
  OBVIOUS
<1>3. (d \o <<Head(c)>>) \o Tail(c) = d \o (<<Head(c)>> \o Tail(c))
  BY <1>1, ConcatAssociative
<1>4. d \o <<>> = d
  BY ConcatEmptySeq
<1> QED
  BY <1>2, <1>3, <1>4

LEMMA FileTakeInv == ASSUME Inv, NEW t \in DOMAIN log, FileTake(t) PROVE Inv'
<1>1. /\ IsFile(log[t].filter) /\ log[t].pc = "wait" /\ log[t].ch # <<>>
      /\ Others /\ UNCHANGED disk
  BY DEF FileTake
<1>2. PICK pc \in {"rename", "write"} :
        /\ LinesReached(log[t]) => pc = "rename"
        /\ log' = [log EXCEPT ![t].hand = Head(log[t].ch), ![t].ch = Tail(log[t].ch),
                              ![t].pc = pc]
  BY DEF FileTake
<1> DEFINE w == [filter |-> log[t].filter, pc |-> pc, ch |-> Tail(log[t].ch),
                 hand |-> Head(log[t].ch), curlines |-> log[t].curlines]
<1>3. /\ Head(log[t].ch) \in Record /\ Tail(log[t].ch) \in Seq(Record)
      /\ Len(Tail(log[t].ch)) = Len(log[t].ch) - 1 /\ Len(log[t].ch) \in Nat
  BY <1>1, WriterFacts, HeadTailProperties, EmptySeq
<1>4. Moves(t, w)
  BY <1>2, <1>3, WriterFacts DEF Moves, WriterRecord, WriterPc
<1>5. Shape(t, w)
  BY <1>3, WriterFacts, LoggingAssumption DEF Shape, WriterRecord, WriterPc
<1>6. Stage(w, fileExists)
  BY <1>1, <1>3, WriterFacts, NoneAssumption DEF Stage
<1>7. Lines(w, file)
  BY <1>1, <1>2, WriterFacts DEF Lines, LinesReached
<1>8. Complete(w, OnDisk, diskAtStart \o accepted[t])
  <2>1. Hand(log[t]) = <<>> /\ Hand(w) = <<Head(log[t].ch)>>
    BY <1>1, <1>3, WriterFacts, NoneAssumption DEF Hand, Stage
  <2>2. OnDisk \o Hand(log[t]) \o log[t].ch = OnDisk \o Hand(w) \o Tail(log[t].ch)
    BY <1>1, <2>1, WriterFacts, TakeOne
  <2> QED
    BY <1>1, <2>2, WriterFacts DEF Complete
<1>9. UNCHANGED <<OnDisk, file, fileExists>> /\ DiskOK'
  BY <1>1, WriterFacts DEF disk, OnDisk, DiskOK
<1>10. proc # "loading" /\ w.filter = log[t].filter
  BY <1>1, WriterFacts
<1> HIDE DEF w
<1> QED
  BY <1>1, <1>4, <1>5, <1>6, <1>7, <1>8, <1>9, <1>10, MovesInv

LEMMA ChannelTakeInv == ASSUME Inv, NEW t \in DOMAIN log, ChannelTake(t) PROVE Inv'
<1>1. /\ ~IsFile(log[t].filter) /\ log[t].pc = "wait" /\ log[t].ch # <<>>
      /\ log' = [log EXCEPT ![t].ch = Tail(log[t].ch)] /\ Others /\ UNCHANGED disk
  BY DEF ChannelTake
<1> DEFINE w == [filter |-> log[t].filter, pc |-> log[t].pc, ch |-> Tail(log[t].ch),
                 hand |-> log[t].hand, curlines |-> log[t].curlines]
<1>2. /\ Tail(log[t].ch) \in Seq(Record)
      /\ Len(Tail(log[t].ch)) = Len(log[t].ch) - 1 /\ Len(log[t].ch) \in Nat
  BY <1>1, WriterFacts, HeadTailProperties, EmptySeq
<1>3. Moves(t, w)
  BY <1>1, <1>2, WriterFacts DEF Moves, WriterRecord
<1>4. Shape(t, w)
  BY <1>2, WriterFacts, LoggingAssumption DEF Shape, WriterRecord
<1>5. Stage(w, fileExists) /\ Lines(w, file) /\ Complete(w, OnDisk, diskAtStart \o accepted[t])
  BY <1>1, WriterFacts DEF Stage, Lines, Complete
<1>6. UNCHANGED <<OnDisk, file, fileExists>> /\ DiskOK'
  BY <1>1, WriterFacts DEF disk, OnDisk, DiskOK
<1>7. proc # "loading" /\ w.filter = log[t].filter
  BY <1>1, WriterFacts
<1> HIDE DEF w
<1> QED
  BY <1>1, <1>3, <1>4, <1>5, <1>6, <1>7, MovesInv

(* A writer that changes nothing but its place. *)
LEMMA SetFacts ==
  ASSUME Inv, NEW t \in DOMAIN log, NEW pc \in WriterPc, Set(t, pc)
  PROVE  LET w == [filter |-> log[t].filter, pc |-> pc, ch |-> log[t].ch,
                   hand |-> log[t].hand, curlines |-> log[t].curlines]
         IN Moves(t, w) /\ Shape(t, w) /\ Hand(w) = Hand(log[t])
  BY WriterFacts DEF Set, Moves, Shape, WriterRecord, Hand

LEMMA DeadInv ==
  ASSUME Inv, NEW t \in DOMAIN log, Set(t, "dead"), Others, UNCHANGED disk,
         log[t].hand # None
  PROVE  Inv'
<1> DEFINE w == [filter |-> log[t].filter, pc |-> "dead", ch |-> log[t].ch,
                 hand |-> log[t].hand, curlines |-> log[t].curlines]
<1>1. Moves(t, w) /\ Shape(t, w) /\ Hand(w) = Hand(log[t])
  BY SetFacts DEF WriterPc
<1>2. Stage(w, fileExists) /\ Lines(w, file)
  BY DEF Stage, Lines
<1>3. Complete(w, OnDisk, diskAtStart \o accepted[t])
  BY <1>1, WriterFacts DEF Complete
<1>4. UNCHANGED <<OnDisk, file, fileExists>> /\ DiskOK'
  BY WriterFacts DEF disk, OnDisk, DiskOK
<1>5. proc # "loading" /\ w.filter = log[t].filter
  BY WriterFacts
<1> HIDE DEF w
<1> QED
  BY <1>1, <1>2, <1>3, <1>4, <1>5, MovesInv

LEMMA GiveUpInv ==
  ASSUME Inv, NEW t \in DOMAIN log, GiveUp(t), UNCHANGED disk PROVE Inv'
<1>1. CASE log[t].hand = None
  BY <1>1, DownInv DEF GiveUp
<1>2. CASE log[t].hand # None
  BY <1>2, DeadInv DEF GiveUp
<1> QED
  BY <1>1, <1>2

(* The rename moves what the file holds, and a file that is not renamed    *)
(* although it is to be rotated does not exist.                            *)
LEMMA RotateRenameInv == ASSUME Inv, NEW t \in DOMAIN log, RotateRename(t) PROVE Inv'
<1> DEFINE w == [filter |-> log[t].filter, pc |-> "open", ch |-> log[t].ch,
                 hand |-> log[t].hand, curlines |-> log[t].curlines]
<1>1. IsFile(log[t].filter)
  BY WriterFacts DEF RotateRename, Stage
<1>2. CASE GiveUp(t) /\ UNCHANGED disk
  BY <1>2, GiveUpInv
<1>3. ASSUME Set(t, "open"), Others, DiskOK', OnDisk' = OnDisk,
             log[t].filter.rotate => file' = <<>>
      PROVE  Inv'
  <2>1. Moves(t, w) /\ Shape(t, w) /\ Hand(w) = Hand(log[t])
    BY <1>3, SetFacts DEF WriterPc
  <2>2. Stage(w, fileExists') /\ Lines(w, file')
    BY <1>1, <1>3 DEF Stage, Lines
  <2>3. Complete(w, OnDisk', diskAtStart \o accepted[t])
    BY <1>3, <2>1, WriterFacts DEF Complete
  <2>4. proc = "loading" => w.ch = <<>> /\ w.hand = None
    BY WriterFacts
  <2>5. w.filter = log[t].filter
    OBVIOUS
  <2> HIDE DEF w
  <2> QED
    BY <1>1, <1>3, <2>1, <2>2, <2>3, <2>4, <2>5, MovesInv
<1>4. CASE /\ numbers < MaxOld /\ numbers' = numbers + 1
           /\ old' = old \o file /\ file' = <<>> /\ fileExists' = FALSE
           /\ Set(t, "open") /\ Others
  <2>1. old \o file \in Seq(Record) /\ (old \o file) \o <<>> = old \o file
    BY WriterFacts, ConcatProperties, ConcatEmptySeq DEF DiskOK
  <2>2. OnDisk' = OnDisk
    BY <1>4, <2>1 DEF OnDisk
  <2>3. numbers' \in 0..MaxOld
    BY <1>4, WriterFacts, LoggingAssumption DEF DiskOK
  <2>4. DiskOK'
    <3>1. <<>> \in Seq(Record)
      OBVIOUS
    <3> QED
      BY <1>4, <2>1, <2>3, <3>1 DEF DiskOK
  <2> QED
    BY <1>3, <1>4, <2>2, <2>4
<1>5. CASE /\ ~log[t].filter.rotate \/ ~fileExists
           /\ Set(t, "open") /\ Others /\ UNCHANGED disk
  <2>1. OnDisk' = OnDisk /\ DiskOK' /\ (log[t].filter.rotate => file' = <<>>)
    BY <1>5, WriterFacts DEF OnDisk, DiskOK, disk
  <2> QED
    BY <1>3, <1>5, <2>1
<1> QED
  BY <1>2, <1>4, <1>5 DEF RotateRename

LEMMA RotateOpenInv == ASSUME Inv, NEW t \in DOMAIN log, RotateOpen(t) PROVE Inv'
<1>1. IsFile(log[t].filter) /\ log[t].pc = "open"
  BY WriterFacts DEF RotateOpen, Stage
<1>2. CASE GiveUp(t) /\ UNCHANGED disk
  BY <1>2, GiveUpInv
<1>3. CASE Opened(t) /\ fileExists' = TRUE /\ UNCHANGED <<file, numbers, old>>
  <2> DEFINE pc == IF log[t].hand = None THEN "wait" ELSE "write"
             w == [filter |-> log[t].filter, pc |-> pc, ch |-> log[t].ch,
                   hand |-> log[t].hand, curlines |-> 0]
  <2>1. log' = [log EXCEPT ![t].curlines = 0, ![t].pc = pc] /\ Others
    BY <1>3 DEF Opened
  <2>2. Moves(t, w)
    BY <2>1, WriterFacts DEF Moves, WriterRecord, WriterPc
  <2>3. Shape(t, w) /\ Hand(w) = Hand(log[t])
    BY WriterFacts DEF Shape, WriterRecord, WriterPc, Hand
  <2>4. Stage(w, fileExists')
    BY <1>1, <1>3 DEF Stage
  <2>5. Lines(w, file')
    BY <1>1, <1>3, WriterFacts DEF Lines
  <2>6. OnDisk' = OnDisk /\ DiskOK'
    BY <1>3, WriterFacts DEF OnDisk, DiskOK
  <2>7. Complete(w, OnDisk', diskAtStart \o accepted[t])
    BY <2>3, <2>6, WriterFacts DEF Complete
  <2>8. w.filter = log[t].filter /\ (proc = "loading" => w.ch = <<>> /\ w.hand = None)
    BY WriterFacts
  <2> HIDE DEF w
  <2> QED
    BY <1>1, <2>1, <2>2, <2>3, <2>4, <2>5, <2>6, <2>7, <2>8, MovesInv
<1> QED
  BY <1>2, <1>3 DEF RotateOpen

(* The record that is written leaves the hand and a line less.              *)
LEMMA FileWriteInv == ASSUME Inv, NEW t \in DOMAIN log, FileWrite(t) PROVE Inv'
<1>1. /\ IsFile(log[t].filter) /\ log[t].pc = "write" /\ log[t].hand \in Record
      /\ log[t].hand # None /\ fileExists /\ Others /\ UNCHANGED <<fileExists, numbers, old>>
  BY WriterFacts DEF FileWrite, Stage
<1>2. CASE Set(t, "dead") /\ UNCHANGED file
  BY <1>1, <1>2, DeadInv DEF disk
<1>3. CASE /\ file' = Append(file, log[t].hand)
           /\ log' = [log EXCEPT ![t].hand = None, ![t].curlines = log[t].curlines + 1,
                                 ![t].pc = "wait"]
  <2> DEFINE w == [filter |-> log[t].filter, pc |-> "wait", ch |-> log[t].ch,
                   hand |-> None, curlines |-> log[t].curlines + 1]
  <2>1. Moves(t, w)
    BY <1>3, WriterFacts DEF Moves, WriterRecord, WriterPc
  <2>2. Shape(t, w) /\ Stage(w, fileExists')
    BY <1>1, WriterFacts DEF Shape, Stage, WriterRecord, WriterPc
  <2>3. file \in Seq(Record) /\ old \in Seq(Record) /\ Len(file) \in Nat
    BY WriterFacts DEF DiskOK
  <2>4. file' \in Seq(Record) /\ Len(file') = Len(file) + 1
    BY <1>1, <1>3, <2>3, AppendProperties
  <2>5. DiskOK'
    BY <1>1, <2>4, WriterFacts DEF DiskOK
  <2>6. Lines(w, file')
    <3>1. log[t].filter.rotate =>
            /\ Len(file) = log[t].curlines
            /\ log[t].filter.maxlines > 0 => log[t].curlines < log[t].filter.maxlines
      BY <1>1, WriterFacts DEF Lines
    <3>2. log[t].curlines \in Nat /\ log[t].filter.maxlines \in Nat
      BY WriterFacts
    <3>3. log[t].filter.rotate =>
            /\ Len(file') = log[t].curlines + 1
            /\ log[t].filter.maxlines > 0 => Len(file') <= log[t].filter.maxlines
      BY <2>3, <2>4, <3>1, <3>2
    <3> QED
      BY <3>3 DEF Lines
  <2>7. Complete(w, OnDisk', diskAtStart \o accepted[t])
    <3>1. OnDisk' = Append(OnDisk, log[t].hand)
      BY <1>1, <1>3, <2>3, ConcatAppend DEF OnDisk
    <3>2. OnDisk' = OnDisk \o <<log[t].hand>> /\ OnDisk' \in Seq(Record)
      BY <1>1, <3>1, WriterFacts, AppendIsConcat, AppendProperties
    <3>3. OnDisk' \o <<>> = OnDisk'
      BY <3>2, ConcatEmptySeq
    <3>4. Hand(log[t]) = <<log[t].hand>> /\ Hand(w) = <<>>
      BY <1>1 DEF Hand
    <3>5. OnDisk \o Hand(log[t]) \o log[t].ch = diskAtStart \o accepted[t]
      BY <1>1, WriterFacts DEF Complete
    <3> QED
      BY <3>2, <3>3, <3>4, <3>5 DEF Complete
  <2>8. proc # "loading" /\ w.filter = log[t].filter
    BY <1>1, WriterFacts
  <2> HIDE DEF w
  <2> QED
    BY <1>1, <2>1, <2>2, <2>5, <2>6, <2>7, <2>8, MovesInv
<1> QED
  BY <1>2, <1>3 DEF FileWrite

-----------------------------------------------------------------------------
LEMMA StutterInv == ASSUME Inv, UNCHANGED vars PROVE Inv'
<1>1. UNCHANGED <<proc, config, log, disk, calls, history>>
  BY DEF vars
<1>2. OneFile' /\ Writers' /\ DiskOK' /\ CallsOK'
  BY <1>1 DEF Inv, OneFile, Writers, DiskOK, CallsOK, disk, history, calls, OnDisk
<1>3. Start'
  BY <1>1 DEF Inv, Start, disk, history, calls, OnDisk, NoCalls
<1> QED
  BY <1>2, <1>3 DEF Inv

(* The invariant is kept by every step.                                     *)
THEOREM InvariantHolds == Spec => []Inv
<1>1. ASSUME Inv, [Next]_vars PROVE Inv'
  <2>1. CASE Boot
    BY <1>1, <2>1, BootInv
  <2>2. CASE LoadFilter
    BY <1>1, <2>2, LoadFilterInv
  <2>3. CASE Loaded
    BY <1>1, <2>3, LoadedInv
  <2>4. CASE Kill
    BY <1>1, <2>4, DownInv DEF Kill
  <2>5. ASSUME NEW g \in Goroutine, LogCall(g) PROVE Inv'
    BY <1>1, <2>5, LogCallInv
  <2>6. ASSUME NEW g \in Goroutine, LogWrite(g) PROVE Inv'
    BY <1>1, <2>6, LogWriteInv
  <2>7. ASSUME NEW t \in Tags, WriterStep(t) PROVE Inv'
    <3>1. t \in DOMAIN log
      BY <2>7 DEF WriterStep
    <3> QED
      BY <1>1, <2>7, <3>1, FileTakeInv, RotateRenameInv, RotateOpenInv, FileWriteInv,
         ChannelTakeInv DEF WriterStep
  <2>8. CASE UNCHANGED vars
    BY <1>1, <2>8, StutterInv
  <2> QED
    BY <1>1, <2>1, <2>2, <2>3, <2>4, <2>5, <2>6, <2>7, <2>8 DEF Next
<1> QED
  BY InitInv, <1>1, PTL DEF Spec

(* Channels, files and counters stay in their types: TypeOK.                *)
THEOREM TypesHold == Spec => []TypeOK
<1>1. Inv => TypeOK
  BY DEF Inv, TypeOK, DiskOK, CallsOK, OneFile, Start, Writers, Shape
<1> QED
  BY InvariantHolds, <1>1, PTL

(* FileComplete: what is on disk, in the hand and in the channel of the    *)
(* writer of the file is what was there at the start and was accepted.     *)
THEOREM FilesAlwaysComplete == Spec => []FileComplete
<1>1. Inv => FileComplete
  BY DEF Inv, FileComplete, Writers, Complete
<1> QED
  BY InvariantHolds, <1>1, PTL

(* LinesCounted: no file of a rotated log has more lines than it should.    *)
THEOREM LinesAlwaysCounted == Spec => []LinesCounted
<1>1. Inv => LinesCounted
  BY DEF Inv, LinesCounted, Writers, Lines
<1> QED
  BY InvariantHolds, <1>1, PTL

-----------------------------------------------------------------------------
LEMMA PrefixOfItself == ASSUME NEW S, NEW s \in Seq(S) PROVE IsPrefix(s, s)
  BY DEF IsPrefix

LEMMA PrefixOfAppend ==
  ASSUME NEW S, NEW s \in Seq(S), NEW e \in S PROVE IsPrefix(s, Append(s, e))
<1>1. Append(s, e) \in Seq(S) /\ Len(s) \in Nat /\ Len(Append(s, e)) = Len(s) + 1
  BY AppendProperties
<1>2. \A i \in 1..Len(s) : Append(s, e)[i] = s[i]
  OBVIOUS
<1>3. SubSeq(s, 1, Len(s)) = SubSeq(Append(s, e), 1, Len(s))
  BY <1>1, <1>2
<1> QED
  BY <1>1, <1>3 DEF IsPrefix

(* LogOnlyGrows: only a rename and a write change what is on disk; the     *)
(* rename changes the place, the write adds a record at the end.           *)
LEMMA DiskGrows == ASSUME Inv, [Next]_vars PROVE IsPrefix(OnDisk, OnDisk')
<1>1. DiskOK /\ OnDisk \in Seq(Record)
  BY ConcatProperties DEF Inv, DiskOK, OnDisk
<1>2. CASE UNCHANGED disk
  <2>1. OnDisk' = OnDisk
    BY <1>2 DEF disk, OnDisk
  <2> QED
    BY <1>1, <2>1, PrefixOfItself
<1>3. ASSUME NEW t \in DOMAIN log, RotateRename(t), ~UNCHANGED disk
      PROVE  IsPrefix(OnDisk, OnDisk')
  <2>1. old' = old \o file /\ file' = <<>>
    BY <1>3 DEF RotateRename
  <2>2. OnDisk' = OnDisk
    BY <1>1, <2>1, ConcatEmptySeq DEF OnDisk
  <2> QED
    BY <1>1, <2>2, PrefixOfItself
<1>4. ASSUME NEW t \in DOMAIN log, FileWrite(t), ~UNCHANGED disk
      PROVE  IsPrefix(OnDisk, OnDisk')
  <2>1. file' = Append(file, log[t].hand) /\ old' = old
    BY <1>4 DEF FileWrite, disk
  <2>2. log[t].hand \in Record
    BY <1>4, WriterFacts DEF FileWrite, Stage
  <2>3. OnDisk' = Append(OnDisk, log[t].hand)
    BY <1>1, <2>1, <2>2, ConcatAppend DEF OnDisk, DiskOK
  <2> QED
    BY <1>1, <2>2, <2>3, PrefixOfAppend
<1>5. ASSUME NEW t \in DOMAIN log, RotateOpen(t) PROVE IsPrefix(OnDisk, OnDisk')
  <2>1. UNCHANGED <<file, old>>
    BY <1>5 DEF RotateOpen, disk
  <2> QED
    BY <1>1, <2>1, PrefixOfItself DEF OnDisk
<1>6. UNCHANGED disk \/ \E t \in DOMAIN log : RotateRename(t) \/ RotateOpen(t) \/ FileWrite(t)
  BY DEF Next, Boot, LoadFilter, Loaded, Kill, LogCall, intLogf, LogWrite, WriterStep,
         FileTake, ChannelTake, vars
<1> QED
  BY <1>2, <1>3, <1>4, <1>5, <1>6

THEOREM LogAlwaysGrows == Spec => LogOnlyGrows
<1>1. Inv /\ [Next]_vars => [IsPrefix(OnDisk, OnDisk')]_vars
  BY DiskGrows
<1> QED
  BY InvariantHolds, <1>1, PTL DEF Spec, LogOnlyGrows

-----------------------------------------------------------------------------
(* Who gets which record.  A goroutine still serves each filter at most    *)
(* once, and only filters that admit the record of the call it is in.      *)
Serving(g) ==
  /\ \A i, j \in DOMAIN left[g] : left[g][i] = left[g][j] => i = j
  /\ \A i \in DOMAIN left[g] : Admits(left[g][i], Last(issued[g]))

Got(t, g) ==
  LET places == {i \in DOMAIN accepted[t] : accepted[t][i].from = g} IN
  /\ \A i, j \in places : i < j => accepted[t][i].n < accepted[t][j].n
  /\ {accepted[t][i] : i \in places} = Expected(g, t)

Dispatch ==
  /\ \A g \in Goroutine : Serving(g)
  /\ \A t \in DOMAIN log, g \in Goroutine : Got(t, g)

Fresh == NoCalls /\ \A t \in DOMAIN log : accepted[t] = <<>>

LEMMA FreshDispatch == Fresh => Dispatch
<1> SUFFICES ASSUME Fresh PROVE Dispatch
  OBVIOUS
<1>1. \A g \in Goroutine : issued[g] = <<>> /\ left[g] = <<>>
  BY DEF Fresh, NoCalls
<1>2. \A t, g : issued[g] = <<>> => Expected(g, t) = {}
  BY DEF Expected
<1> QED
  BY <1>1, <1>2 DEF Fresh, Dispatch, Serving, Got

LEMMA FreshAfter == Fresh' => Dispatch'
  BY FreshDispatch, PTL

(* The writers take nothing from what they have accepted.                   *)
LEMMA QuietDispatch ==
  ASSUME Inv, Dispatch, UNCHANGED <<calls, accepted>>, DOMAIN log' = DOMAIN log,
         \A t \in DOMAIN log : log'[t].filter = log[t].filter
  PROVE  Dispatch'
<1>1. UNCHANGED <<issued, left, accepted>>
  BY DEF calls
<1>2. \A t \in DOMAIN log : \A level : Admits(t, level)' <=> Admits(t, level)
  BY DEF Admits
<1>3. ASSUME NEW g \in Goroutine PROVE Serving(g)'
  <2>1. left[g] \in Seq(DOMAIN log)
    BY DEF Inv, CallsOK
  <2>2. \A i \in DOMAIN left[g] : left[g][i] \in DOMAIN log
    BY <2>1
  <2> QED
    BY <1>1, <1>2, <2>2 DEF Dispatch, Serving
<1>4. ASSUME NEW t \in DOMAIN log, NEW g \in Goroutine PROVE Got(t, g)'
  <2>1. Expected(g, t)' = Expected(g, t)
    BY <1>1, <1>2 DEF Expected
  <2> QED
    BY <1>1, <2>1 DEF Dispatch, Got
<1> QED
  BY <1>3, <1>4 DEF Dispatch

(* A permutation of a finite set has all its elements.                      *)
LEMMA AllInOrder ==
  ASSUME NEW S, IsFiniteSet(S), NEW order \in SetToSeqs(S)
  PROVE  /\ DOMAIN order = 1..Cardinality(S) /\ Range(order) = S
         /\ \A i, j \in DOMAIN order : order[i] = order[j] => i = j
<1> DEFINE D == 1..Cardinality(S)
<1>1. order \in [D -> S] /\ \A i, j \in D : i # j => order[i] # order[j]
  BY DEF SetToSeqs
<1>2. Cardinality(S) \in Nat
  BY FS_CardinalityType
<1>3. IsFiniteSet(D) /\ Cardinality(D) = Cardinality(S)
  BY <1>2, FS_Interval
<1> HIDE DEF D
<1>4. order \in Injection(D, S)
  BY <1>1 DEF Injection, IsInjective
<1>5. order \in Surjection(D, S)
  BY <1>3, <1>4, FS_Injection
<1>6. \A t \in S : \E i \in D : order[i] = t
  BY <1>5 DEF Surjection
<1>7. Range(order) = S
  BY <1>1, <1>6 DEF Range
<1> QED
  BY <1>1, <1>7 DEF D

LEMMA LogCallDispatch ==
  ASSUME Inv, Dispatch, NEW g \in Goroutine, LogCall(g) PROVE Dispatch'
<1>1. PICK level \in Level : intLogf(g, level)
  BY DEF LogCall
<1> DEFINE S == {t \in DOMAIN log : Admits(t, level)}
<1>2. PICK order \in SetToSeqs(S) : left' = [left EXCEPT ![g] = order]
  BY <1>1 DEF intLogf
<1>3. /\ Range(order) = S
      /\ \A i, j \in DOMAIN order : order[i] = order[j] => i = j
  <2>1. IsFiniteSet(S)
    BY FS_Subset DEF Inv, OneFile
  <2> HIDE DEF S
  <2> QED
    BY <2>1, AllInOrder
<1>4. /\ left[g] = <<>> /\ issued' = [issued EXCEPT ![g] = Append(issued[g], level)]
      /\ UNCHANGED <<log, accepted>>
  BY <1>1 DEF intLogf, history
<1>5. issued \in [Goroutine -> Seq(Level)] /\ left \in [Goroutine -> Seq(DOMAIN log)]
  BY DEF Inv, CallsOK
<1> DEFINE N == Len(issued[g])
<1>6. /\ N \in Nat /\ issued'[g] = Append(issued[g], level) /\ left'[g] = order
      /\ Len(issued'[g]) = N + 1 /\ Last(issued'[g]) = level
      /\ issued'[g][N + 1] = level
      /\ \A n \in 1..N : issued'[g][n] = issued[g][n]
  BY <1>2, <1>4, <1>5 DEF Last
<1>7. \A t, l : Admits(t, l)' <=> Admits(t, l)
  BY <1>4 DEF Admits
<1>8. ASSUME NEW h \in Goroutine PROVE Serving(h)'
  <2>1. CASE h = g
    <3>1. \A i \in DOMAIN order : order[i] \in S
      BY <1>3 DEF Range
    <3> QED
      BY <1>3, <1>6, <1>7, <2>1, <3>1 DEF Serving
  <2>2. CASE h # g
    BY <1>2, <1>4, <1>5, <1>7, <2>2 DEF Dispatch, Serving
  <2> QED
    BY <2>1, <2>2
<1>9. ASSUME NEW t \in DOMAIN log, NEW h \in Goroutine PROVE Got(t, h)'
  <2>1. Expected(h, t)' = Expected(h, t)
    <3>1. CASE h # g
      <4>1. issued'[h] = issued[h] /\ left'[h] = left[h]
        BY <1>2, <1>4, <1>5, <3>1
      <4> QED
        BY <1>7, <4>1 DEF Expected
    <3>2. CASE h = g
      <4> DEFINE rec(n) == [from |-> g, n |-> n, level |-> issued[g][n]]
                 next(n) == [from |-> g, n |-> n, level |-> issued'[g][n]]
      <4>1. Range(left[g]) = {}
        BY <1>4 DEF Range
      <4>2. Expected(g, t) = {r \in {rec(n) : n \in 1..N} : Admits(t, r.level)}
        BY <4>1 DEF Expected
      <4>3. Expected(g, t)' =
              {r \in {next(n) : n \in 1..(N + 1)} :
                 Admits(t, r.level) /\ ~(r.n = N + 1 /\ t \in S)}
        BY <1>3, <1>6, <1>7 DEF Expected
      <4>4. \A n \in 1..N : next(n) = rec(n)
        BY <1>6
      <4>5. Admits(t, next(N + 1).level) => t \in S
        BY <1>6
      <4>6. 1..(N + 1) = (1..N) \cup {N + 1} /\ \A n \in 1..N : rec(n).n # N + 1
        BY <1>6
      <4>7. next(N + 1).n = N + 1
        OBVIOUS
      <4> HIDE DEF S, N, rec, next
      <4> QED
        BY <3>2, <4>2, <4>3, <4>4, <4>5, <4>6, <4>7
    <3> QED
      BY <3>1, <3>2
  <2> QED
    BY <1>4, <2>1 DEF Dispatch, Got
<1> QED
  BY <1>4, <1>8, <1>9 DEF Dispatch

(* The filter served first is the only one not served any longer.          *)
LEMMA FirstServed ==
  ASSUME NEW S, NEW s \in Seq(S), s # <<>>, \A i, j \in DOMAIN s : s[i] = s[j] => i = j
  PROVE  /\ Range(s) = Range(Tail(s)) \cup {Head(s)} /\ Head(s) \notin Range(Tail(s))
         /\ \A i, j \in DOMAIN Tail(s) : Tail(s)[i] = Tail(s)[j] => i = j
<1> DEFINE r == Tail(s)
<1>1. /\ DOMAIN s = 1..Len(s) /\ DOMAIN r = 1..(Len(s) - 1) /\ Len(s) \in Nat \ {0}
      /\ Head(s) = s[1] /\ \A i \in 1..(Len(s) - 1) : r[i] = s[i + 1]
  OBVIOUS
<1> HIDE DEF r
<1>2. 1 \in DOMAIN s /\ \A i \in DOMAIN r : i + 1 \in DOMAIN s /\ i + 1 # 1
  BY <1>1
<1>3. \A i \in DOMAIN s : i = 1 \/ (i - 1 \in DOMAIN r /\ r[i - 1] = s[i])
  BY <1>1
<1>4. \A i, j \in DOMAIN r : i + 1 = j + 1 => i = j
  BY <1>1
<1>5. Head(s) \notin Range(r)
  BY <1>1, <1>2 DEF Range
<1>6. \A x \in Range(s) : x \in Range(r) \cup {Head(s)}
  BY <1>1, <1>3 DEF Range
<1>7. \A x \in Range(r) \cup {Head(s)} : x \in Range(s)
  BY <1>1, <1>2 DEF Range
<1>8. \A i, j \in DOMAIN r : r[i] = r[j] => i = j
  BY <1>1, <1>2, <1>4
<1> QED
  BY <1>5, <1>6, <1>7, <1>8 DEF r

(* The record of a call comes after all earlier ones of its goroutine, and *)
(* the filter is served.                                                   *)
LEMMA LogWriteDispatch ==
  ASSUME Inv, Dispatch, NEW g \in Goroutine, LogWrite(g) PROVE Dispatch'
<1>0. PICK t, r, N : t = Head(left[g]) /\ r = RecordOf(g) /\ N = Len(issued[g])
  OBVIOUS
<1>1. left[g] # <<>> /\ left[g] \in Seq(DOMAIN log)
  BY DEF LogWrite, Inv, CallsOK
<1>2. t \in DOMAIN log /\ Tail(left[g]) \in Seq(DOMAIN log)
  BY <1>0, <1>1, HeadTailProperties
<1>3. /\ accepted' = [accepted EXCEPT ![t] = Append(accepted[t], r)]
      /\ left' = [left EXCEPT ![g] = Tail(left[g])]
      /\ log' = [log EXCEPT ![t].ch = Append(log[t].ch, r)]
      /\ UNCHANGED issued
  BY <1>0 DEF LogWrite
<1>4. /\ left \in [Goroutine -> Seq(DOMAIN log)]
      /\ issued[g] \in Seq(Level) /\ issued[g] # <<>> /\ N \in Nat \ {0}
      /\ \A u \in DOMAIN log : log[u] \in WriterRecord
  <2>1. issued[g] \in Seq(Level) /\ issued[g] # <<>>
    BY <1>1 DEF Inv, CallsOK
  <2> QED
    BY <1>0, <2>1, EmptySeq DEF Inv, CallsOK, Writers, Shape
<1>5. proc # "down" /\ accepted \in [Tags -> Seq(Record)] /\ t \in Tags
  BY <1>2 DEF Inv, Start, OneFile
<1>6. DOMAIN log' = DOMAIN log /\ \A u \in DOMAIN log : log'[u].filter = log[u].filter
  BY <1>2, <1>3, <1>4 DEF WriterRecord
<1>7. \A u \in DOMAIN log : \A l : Admits(u, l)' <=> Admits(u, l)
  BY <1>6 DEF Admits
<1>8. r.from = g /\ r.n = N /\ r.level = issued[g][N] /\ r = [from |-> g, n |-> N, level |-> issued[g][N]]
  BY <1>0 DEF RecordOf, Last
<1>9. /\ \A i, j \in DOMAIN left[g] : left[g][i] = left[g][j] => i = j
      /\ Admits(t, issued[g][N])
  <2>1. Serving(g)
    BY DEF Dispatch
  <2>2. 1 \in DOMAIN left[g] /\ t = left[g][1]
    BY <1>0, <1>1
  <2>3. Admits(t, Last(issued[g]))
    BY <2>1, <2>2 DEF Serving
  <2> QED
    BY <1>0, <2>1, <2>3 DEF Serving, Last
<1>11. /\ Range(left[g]) = Range(Tail(left[g])) \cup {t} /\ t \notin Range(Tail(left[g]))
       /\ \A i, j \in DOMAIN Tail(left[g]) :
            Tail(left[g])[i] = Tail(left[g])[j] => i = j
  BY <1>0, <1>1, <1>9, FirstServed
<1>12. ASSUME NEW h \in Goroutine PROVE Serving(h)'
  <2>1. CASE h = g
    <3>1. left'[g] = Tail(left[g])
      BY <1>3, <1>4
    <3>2. \A u \in Range(Tail(left[g])) : u \in Range(left[g])
      BY <1>11
    <3>3. \A u \in Range(left[g]) : u \in DOMAIN log
      BY <1>1 DEF Range
    <3>4. \A u \in Range(left[g]) : Admits(u, Last(issued[g]))
      BY DEF Dispatch, Serving, Range
    <3>5. \A i \in DOMAIN Tail(left[g]) : Tail(left[g])[i] \in Range(Tail(left[g]))
      BY DEF Range
    <3> QED
      BY <1>3, <1>7, <1>11, <2>1, <3>1, <3>2, <3>3, <3>4, <3>5 DEF Serving
  <2>2. CASE h # g
    <3>1. left'[h] = left[h] /\ left[h] \in Seq(DOMAIN log)
      BY <1>3, <1>4, <2>2
    <3>2. \A i \in DOMAIN left[h] : left[h][i] \in DOMAIN log
      BY <3>1
    <3> QED
      BY <1>3, <1>7, <3>1, <3>2 DEF Dispatch, Serving
  <2> QED
    BY <2>1, <2>2
<1>13. ASSUME NEW u \in DOMAIN log, NEW h \in Goroutine, u # t \/ h # g
       PROVE  Expected(h, u)' = Expected(h, u)
  <2>1. u \in Range(left'[h]) <=> u \in Range(left[h])
    BY <1>3, <1>4, <1>11, <1>13
  <2> QED
    BY <1>3, <1>7, <2>1 DEF Expected
<1>14. Expected(g, t)' = Expected(g, t) \cup {r} /\ \A s \in Expected(g, t) : s.n \in Nat /\ s.n < N
  <2> DEFINE rec(n) == [from |-> g, n |-> n, level |-> issued[g][n]]
  <2>1. left'[g] = Tail(left[g])
    BY <1>3, <1>4
  <2>2. Expected(g, t)' = {s \in {rec(n) : n \in 1..N} : Admits(t, s.level)}
    <3>1. Len(issued'[g]) = N /\ issued'[g] = issued[g]
      BY <1>0, <1>3
    <3>2. Expected(g, t)' =
            {s \in {rec(n) : n \in 1..N} :
               Admits(t, s.level)' /\ ~(s.n = N /\ t \in Range(left'[g]))}
      BY <1>3, <3>1 DEF Expected
    <3> HIDE DEF rec
    <3> QED
      BY <1>2, <1>7, <1>11, <2>1, <3>2
  <2>3. Expected(g, t) = {s \in {rec(n) : n \in 1..N} : Admits(t, s.level) /\ s.n # N}
    BY <1>0, <1>11 DEF Expected
  <2>4. \A n \in 1..N : rec(n).n = n /\ (n # N => n < N)
    BY <1>4
  <2>5. N \in 1..N /\ rec(N) = r /\ Admits(t, r.level) /\ r.n = N
    BY <1>4, <1>8, <1>9
  <2> HIDE DEF rec
  <2>6. \A s \in {rec(n) : n \in 1..N} : s.n = N => s = r
    BY <2>4, <2>5
  <2>7. \A s \in Expected(g, t) : s.n \in Nat /\ s.n < N
    BY <1>4, <2>3, <2>4
  <2> QED
    BY <2>2, <2>3, <2>5, <2>6, <2>7
<1>15. ASSUME NEW u \in DOMAIN log, NEW h \in Goroutine PROVE Got(u, h)'
  <2>1. CASE u # t
    <3>1. accepted'[u] = accepted[u] /\ Expected(h, u)' = Expected(h, u)
      BY <1>3, <1>13, <2>1
    <3> QED
      BY <3>1 DEF Dispatch, Got
  <2>2. CASE u = t
    <3> DEFINE a == accepted[t]
               b == Append(a, r)
               K == Len(a)
               places == {i \in DOMAIN a : a[i].from = h}
               next == {i \in DOMAIN b : b[i].from = h}
    <3>1. a \in Seq(Record) /\ K \in Nat /\ DOMAIN a = 1..K
      BY <1>5
    <3>2. /\ accepted'[t] = b /\ DOMAIN b = (1..K) \cup {K + 1} /\ b[K + 1] = r
          /\ \A i \in 1..K : b[i] = a[i]
      BY <1>3, <1>5, <3>1
    <3>3. /\ \A i, j \in places : i < j => a[i].n < a[j].n
          /\ {a[i] : i \in places} = Expected(h, t)
      BY <1>2 DEF Dispatch, Got
    <3>4. K + 1 \notin 1..K /\ \A i \in 1..K : ~(K + 1 < i)
      BY <3>1
    <3> HIDE DEF a, b, K
    <3>5. next = IF h = g THEN places \cup {K + 1} ELSE places
      BY <1>8, <3>1, <3>2, <3>4
    <3>6. CASE h # g
      <4>1. Expected(h, t)' = Expected(h, t)
        BY <1>2, <1>13, <3>6
      <4>2. next = places /\ places \subseteq 1..K
        BY <3>1, <3>5, <3>6
      <4>3. {b[i] : i \in next} = Expected(h, t)'
        BY <3>2, <3>3, <4>1, <4>2
      <4>4. \A i, j \in next : i < j => b[i].n < b[j].n
        BY <3>2, <3>3, <4>2
      <4> QED
        BY <2>2, <3>2, <4>3, <4>4 DEF Got, next
    <3>7. CASE h = g
      <4>1. next = places \cup {K + 1} /\ places \subseteq 1..K
        BY <3>1, <3>5, <3>7
      <4>2. {b[i] : i \in next} = Expected(h, t)'
        BY <1>14, <3>2, <3>3, <3>7, <4>1
      <4>3. \A i \in places : a[i].n < N
        BY <1>14, <3>3, <3>7
      <4>4. \A i, j \in next : i < j => b[i].n < b[j].n
        <5> SUFFICES ASSUME NEW i \in next, NEW j \in next, i < j PROVE b[i].n < b[j].n
          OBVIOUS
        <5>1. i \in places
          <6>1. i # K + 1
            BY <3>1, <3>4, <4>1
          <6> QED
            BY <4>1, <6>1
        <5>2. CASE j \in places
          BY <3>2, <3>3, <4>1, <5>1, <5>2
        <5>3. CASE j = K + 1
          BY <1>8, <3>2, <4>1, <4>3, <5>1, <5>3
        <5> QED
          BY <4>1, <5>2, <5>3
      <4> QED
        BY <2>2, <3>2, <4>2, <4>4 DEF Got, next
    <3> QED
      BY <3>6, <3>7
  <2> QED
    BY <2>1, <2>2
<1> QED
  BY <1>6, <1>12, <1>15 DEF Dispatch

LEMMA DispatchStep == ASSUME Inv, Dispatch, [Next]_vars PROVE Dispatch'
<1>1. ASSUME NoCalls', \A t \in DOMAIN log' : accepted'[t] = <<>> PROVE Dispatch'
  BY <1>1, FreshAfter DEF Fresh
<1>2. CASE Boot \/ LoadFilter \/ Kill
  <2>1. NoCalls'
    BY <1>2 DEF Boot, LoadFilter, Kill, Down, NoCalls, Inv, Start, calls
  <2>2. \A t \in DOMAIN log' : accepted'[t] = <<>>
    <3>1. CASE log' = <<>>
      BY <3>1
    <3>2. CASE log' # <<>>
      <4>1. LoadFilter /\ ~Down
        BY <1>2, <3>2 DEF Boot, Kill, Down
      <4>2. proc = "loading" /\ accepted = [t \in Tags |-> <<>>] /\ accepted' = accepted
        BY <4>1 DEF LoadFilter, Inv, Start, history
      <4>3. DOMAIN log' \subseteq Tags
        BY <1>2, LoadFilterInv, BootInv, DownInv, <4>1 DEF Inv, OneFile
      <4> QED
        BY <4>2, <4>3
    <3> QED
      BY <3>1, <3>2
  <2> QED
    BY <1>1, <2>1, <2>2
<1>3. ASSUME NEW g \in Goroutine, LogCall(g) PROVE Dispatch'
  BY <1>3, LogCallDispatch
<1>4. ASSUME NEW g \in Goroutine, LogWrite(g) PROVE Dispatch'
  BY <1>4, LogWriteDispatch
<1>5. ASSUME NEW t \in Tags, WriterStep(t) PROVE Dispatch'
  <2>1. CASE Down /\ UNCHANGED history
    <3>1. NoCalls' /\ DOMAIN log' = {}
      BY <2>1 DEF Down, NoCalls
    <3> QED
      BY <1>1, <3>1
  <2>2. CASE ~(Down /\ UNCHANGED history)
    <3>1. /\ Others /\ DOMAIN log' = DOMAIN log
          /\ \A u \in DOMAIN log : log'[u].filter = log[u].filter
      <4>1. t \in DOMAIN log /\ \A u \in DOMAIN log : log[u] \in WriterRecord
        BY <1>5 DEF WriterStep, Inv, Writers, Shape
      <4>2. /\ Others
            /\ \/ FileTake(t) \/ FileWrite(t) \/ ChannelTake(t) \/ Opened(t)
               \/ \E pc \in WriterPc : Set(t, pc)
        BY <1>5, <2>2
           DEF WriterStep, FileTake, FileWrite, ChannelTake, RotateRename, RotateOpen,
               GiveUp, Opened, WriterPc
      <4>3. DOMAIN log' = DOMAIN log
        BY <4>2 DEF FileTake, FileWrite, ChannelTake, Opened, Set
      <4>4. \A u \in DOMAIN log : u # t => log'[u] = log[u]
        BY <4>2 DEF FileTake, FileWrite, ChannelTake, Opened, Set
      <4>5. log'[t].filter = log[t].filter
        <5>1. CASE FileTake(t)
          BY <4>1, <5>1 DEF FileTake, WriterRecord
        <5>2. CASE ChannelTake(t)
          BY <4>1, <5>2 DEF ChannelTake, WriterRecord
        <5>3. CASE FileWrite(t)
          BY <4>1, <5>3 DEF FileWrite, Set, WriterRecord
        <5>4. CASE Opened(t) \/ \E pc \in WriterPc : Set(t, pc)
          BY <4>1, <5>4 DEF Opened, Set, WriterRecord
        <5> QED
          BY <4>2, <5>1, <5>2, <5>3, <5>4
      <4> QED
        BY <4>2, <4>3, <4>4, <4>5
    <3> QED
      BY <3>1, QuietDispatch DEF Others, history
  <2> QED
    BY <2>1, <2>2
<1>6. CASE Loaded \/ UNCHANGED vars
  BY <1>6, QuietDispatch DEF Loaded, vars, history
<1> QED
  BY <1>2, <1>3, <1>4, <1>5, <1>6 DEF Next

(* DispatchComplete: each filter has exactly the records it should have,   *)
(* whatever the order in which the goroutines serve the filters and        *)
(* whichever of them waits for a full channel.                             *)
THEOREM DispatchAlwaysComplete == Spec => []DispatchComplete
<1>1. Init => Dispatch
  <2>1. Init => Fresh
    BY DEF Init, Fresh
  <2> QED
    BY <2>1, FreshDispatch
<1>2. Dispatch => DispatchComplete
  BY DEF Dispatch, DispatchComplete, Got
<1> QED
  BY InvariantHolds, DispatchStep, <1>1, <1>2, PTL DEF Spec
=============================================================================
