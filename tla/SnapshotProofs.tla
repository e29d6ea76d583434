--------------------------- MODULE SnapshotProofs ---------------------------
(***************************************************************************)
(* write_snapshot replaces the snapshot atomically, as long as its calls   *)
(* do not overlap (~ Overlapping): whatever the number of accounts, of     *)
(* calls and of crashes, and whichever system calls fail.                  *)
(***************************************************************************)
EXTENDS SnapshotFile, TLAPS

Numbers == 1 .. Len(Accounts)

\* The whole file of the n-th snapshot.
Whole(n) == Append(Buffer(n), Crc(Buffer(n)))

Complete(n) == [units |-> Whole(n), synced |-> Whole(n), dirty |-> FALSE]

Unit ==
    {Zero} \cup {[header |-> n] : n \in Numbers}
    \cup {Crc(Buffer(n)) : n \in Numbers}
    \cup (UNION {{[account |-> i, of |-> n] : i \in 1 .. Accounts[n]} : n \in Numbers})

File == [units : Seq(Unit), synced : Seq(Unit), dirty : BOOLEAN]

Entry == [tmp : Nat, path : Nat, log : BOOLEAN]

CallTypes ==
    /\ files \in Seq(File)
    /\ directory \in Seq(Entry) /\ Len(directory) >= 1
    /\ calls \in 0 .. Len(Accounts)
    /\ call \in [Writers -> [at : {"idle", "opened", "buffer", "crc", "synced", "renamed"},
                             snapshot : Nat, file : Nat, offset : Nat]]
    /\ durable \in [snapshot : Nat, log : BOOLEAN]

\* A state of the directory that a crash may bring back has at path either
\* nothing or a complete snapshot that no crash can touch, at least as new as
\* the one last made durable; and the file that the next call of open, before
\* or after the crash, truncates, is another one.
Restorable(d) ==
    /\ d.tmp <= Len(files) /\ d.path <= Len(files)
    /\ d.path # NoFile =>
          /\ \E n \in 1 .. calls : files[d.path] = Complete(n)
          /\ d.path # d.tmp /\ d.path # Dir.tmp
    /\ durable.snapshot <= load_snapshot(files, d.path)
    /\ durable.log => d.log

DirectoryInv == \A i \in 1 .. Len(directory) : Restorable(directory[i])

OneInFlight == \A v, w \in Writers : call[v] # Idle /\ call[w] # Idle => v = w

Unrenamed == {"opened", "buffer", "crc", "synced"}

\* Until it is renamed, the file of a call in flight is the temporary one, and
\* holds what the call has written so far; no other has its number.
InProgress(w) ==
    LET c == call[w]
        f == files[c.file]
    IN  /\ c.snapshot = calls /\ calls # 0
        /\ c.at \in Unrenamed =>
              /\ c.file = Dir.tmp /\ c.file # NoFile
              /\ \A i \in 1 .. Len(directory) : load_snapshot(files, directory[i].path) < calls
        /\ c.at = "opened" => f.units = <<>> /\ c.offset = 0
        /\ c.at = "buffer" => f.units = Buffer(calls) /\ c.offset = Len(Buffer(calls))
        /\ c.at = "crc" => f.units = Whole(calls)
        /\ c.at = "synced" => f = Complete(calls)

CallInv == \A w \in Writers : call[w] # Idle => InProgress(w) /\ call[w].at # "idle"

SnapshotInv == CallTypes /\ OneInFlight /\ CallInv /\ DirectoryInv

----------------------------------------------------------------------------
(* Contents of files. *)

LEMMA ElementOfSeq ==
    ASSUME NEW S, NEW s \in Seq(S), NEW i \in 1 .. Len(s)
    PROVE  s[i] \in S
  OBVIOUS

LEMMA SeqEqual ==
    ASSUME NEW S, NEW s \in Seq(S), NEW t \in Seq(S),
           Len(s) = Len(t), \A i \in 1 .. Len(s) : s[i] = t[i]
    PROVE  s = t
  OBVIOUS

LEMMA ExceptSeq ==
    ASSUME NEW S, NEW s \in Seq(S), NEW i \in 1 .. Len(s), NEW e \in S
    PROVE  /\ [s EXCEPT ![i] = e] \in Seq(S) /\ Len([s EXCEPT ![i] = e]) = Len(s)
           /\ \A j \in 1 .. Len(s) : [s EXCEPT ![i] = e][j] = IF j = i THEN e ELSE s[j]
  OBVIOUS

LEMMA Singleton ==
    ASSUME NEW S, NEW e \in S
    PROVE  <<e>> \in Seq(S) /\ Len(<<e>>) = 1 /\ <<e>>[1] = e
  OBVIOUS

LEMMA Extended ==
    ASSUME NEW S, NEW s \in Seq(S), NEW e \in S
    PROVE  /\ Append(s, e) \in Seq(S) /\ Len(Append(s, e)) = Len(s) + 1
           /\ Append(s, e)[Len(s) + 1] = e
           /\ \A i \in 1 .. Len(s) : Append(s, e)[i] = s[i]
           /\ SubSeq(Append(s, e), 1, Len(s)) = s
<1>1. /\ Append(s, e) \in Seq(S) /\ Len(Append(s, e)) = Len(s) + 1
      /\ Append(s, e)[Len(s) + 1] = e
      /\ \A i \in 1 .. Len(s) : Append(s, e)[i] = s[i]
  OBVIOUS
<1>2. PICK t : t = SubSeq(Append(s, e), 1, Len(s))
  OBVIOUS
<1>3. t \in Seq(S) /\ Len(t) = Len(s) /\ \A i \in 1 .. Len(s) : t[i] = s[i]
  BY <1>1, <1>2
<1>4. t = s
  BY <1>3, SeqEqual
<1> QED
  BY <1>1, <1>2, <1>4

LEMMA BufferFacts ==
    ASSUME NEW n \in Numbers
    PROVE  /\ Accounts[n] \in Nat
           /\ Buffer(n) \in Seq(Unit) /\ Len(Buffer(n)) = 1 + Accounts[n]
           /\ Buffer(n)[1] = [header |-> n]
<1>1. Accounts[n] \in Nat
  BY SnapshotAssumption DEF Numbers
<1> DEFINE h == <<[header |-> n]>>
           a == [i \in 1 .. Accounts[n] |-> [account |-> i, of |-> n]]
<1>2. h \in Seq(Unit) /\ Len(h) = 1 /\ h[1] = [header |-> n]
  <2>1. [header |-> n] \in Unit
    BY DEF Unit
  <2> QED
    BY <2>1, Singleton, Zenon
<1>3. a \in Seq(Unit) /\ Len(a) = Accounts[n]
  <2>1. \A i \in 1 .. Accounts[n] : [account |-> i, of |-> n] \in Unit
    BY DEF Unit
  <2> QED
    BY <1>1, <2>1
<1> QED
  BY <1>1, <1>2, <1>3 DEF Buffer

LEMMA WholeFacts ==
    ASSUME NEW n \in Numbers
    PROVE  /\ Crc(Buffer(n)) \in Unit
           /\ Whole(n) \in Seq(Unit) /\ Len(Whole(n)) = 2 + Accounts[n]
           /\ Whole(n)[1] = [header |-> n]
           /\ Whole(n)[2 + Accounts[n]] = Crc(Buffer(n))
           /\ SubSeq(Whole(n), 1, 1 + Accounts[n]) = Buffer(n)
<1>1. /\ Accounts[n] \in Nat
      /\ Buffer(n) \in Seq(Unit) /\ Len(Buffer(n)) = 1 + Accounts[n]
      /\ Buffer(n)[1] = [header |-> n]
  BY BufferFacts
<1>2. Crc(Buffer(n)) \in Unit
  BY Zenon DEF Unit
<1>3. /\ Whole(n) \in Seq(Unit) /\ Len(Whole(n)) = Len(Buffer(n)) + 1
      /\ Whole(n)[Len(Buffer(n)) + 1] = Crc(Buffer(n))
      /\ \A i \in 1 .. Len(Buffer(n)) : Whole(n)[i] = Buffer(n)[i]
      /\ SubSeq(Whole(n), 1, Len(Buffer(n))) = Buffer(n)
  BY <1>1, <1>2, Extended, Zenon DEF Whole
<1>4. 1 \in 1 .. Len(Buffer(n)) /\ Len(Buffer(n)) + 1 = 2 + Accounts[n]
  BY <1>1
<1> QED
  BY <1>1, <1>2, <1>3, <1>4, Zenon

LEMMA LoadComplete ==
    ASSUME NEW fs, NEW file, NEW n \in Numbers, file # NoFile, fs[file] = Complete(n)
    PROVE  load_snapshot(fs, file) = n
<1> DEFINE units == fs[file].units
<1>1. units = Whole(n)
  BY DEF Complete
<1>2. /\ Accounts[n] \in Nat /\ Len(units) = 2 + Accounts[n] /\ units \in Seq(Unit)
      /\ units[1] = [header |-> n] /\ units[2 + Accounts[n]] = Crc(Buffer(n))
      /\ SubSeq(units, 1, 1 + Accounts[n]) = Buffer(n)
  BY <1>1, WholeFacts, BufferFacts, Zenon
<1> HIDE DEF units
<1>3. units # <<>> /\ "header" \in DOMAIN units[1] /\ units[1].header = n
  <2>1. units # <<>>
    BY <1>2
  <2>2. "header" \in DOMAIN [header |-> n] /\ [header |-> n].header = n
    BY Zenon
  <2> QED
    BY <1>2, <2>1, <2>2, Zenon
<1>4. /\ Len(units) > 1 + Accounts[units[1].header]
      /\ units[(1 + Accounts[units[1].header]) + 1]
            = Crc(SubSeq(units, 1, 1 + Accounts[units[1].header]))
  <2>1. (1 + Accounts[n]) + 1 = 2 + Accounts[n] /\ Len(units) > 1 + Accounts[n]
    BY <1>2
  <2> QED
    BY <1>2, <1>3, <2>1, Zenon
<1> QED
  BY <1>3, <1>4 DEF load_snapshot, units

LEMMA LoadKept ==
    ASSUME NEW fs, NEW gs, NEW file, file # NoFile => fs[file] = gs[file]
    PROVE  load_snapshot(fs, file) = load_snapshot(gs, file)
  BY DEF load_snapshot

LEMMA WriteAtType ==
    ASSUME NEW units \in Seq(Unit), NEW offset \in Nat, NEW new \in Seq(Unit)
    PROVE  WriteAt(units, offset, new) \in Seq(Unit)
<1>1. PICK m \in Nat : m = IF offset + Len(new) > Len(units) THEN offset + Len(new) ELSE Len(units)
  OBVIOUS
<1>2. Zero \in Unit
  BY DEF Unit
<1>3. \A i \in 1 .. m :
         (IF i > offset /\ i <= offset + Len(new) THEN new[i - offset]
          ELSE IF i <= Len(units) THEN units[i] ELSE Zero) \in Unit
  BY <1>1, <1>2
<1> QED
  BY <1>1, <1>3 DEF WriteAt

LEMMA WriteAtEnd ==
    ASSUME NEW units \in Seq(Unit), NEW new \in Seq(Unit)
    PROVE  WriteAt(units, Len(units), new) = units \o new
<1>1. WriteAt(units, Len(units), new) \in Seq(Unit)
  BY WriteAtType
<1>2. WriteAt(units, Len(units), new) =
        [i \in 1 .. Len(units) + Len(new) |->
            IF i > Len(units) /\ i <= Len(units) + Len(new) THEN new[i - Len(units)]
            ELSE IF i <= Len(units) THEN units[i] ELSE Zero]
  <2>1. (IF Len(units) + Len(new) > Len(units) THEN Len(units) + Len(new) ELSE Len(units))
          = Len(units) + Len(new)
    OBVIOUS
  <2> QED
    BY <2>1 DEF WriteAt
<1>3. units \o new \in Seq(Unit) /\ Len(units \o new) = Len(units) + Len(new)
  OBVIOUS
<1>4. Len(WriteAt(units, Len(units), new)) = Len(units) + Len(new)
  BY <1>1, <1>2
<1>5. \A i \in 1 .. Len(units) + Len(new) :
          WriteAt(units, Len(units), new)[i] = (units \o new)[i]
  BY <1>2
<1> QED
  BY <1>1, <1>3, <1>4, <1>5, SeqEqual, SMTT(30)

----------------------------------------------------------------------------
(* The parts of the invariant that a step leaves alone. *)

Calls == [at : {"idle", "opened", "buffer", "crc", "synced", "renamed"},
          snapshot : Nat, file : Nat, offset : Nat]

\* What AtomicSnapshot sees of a state.
Visible == load_snapshot(files, Dir.path)

Possible == {load_snapshot(files, d.path) : d \in Range(directory)}

LEMMA PossibleByIndex ==
    /\ CallTypes =>
         Possible = {load_snapshot(files, directory[i].path) : i \in 1 .. Len(directory)}
    /\ CallTypes' =>
         Possible' = {load_snapshot(files', directory'[i].path) : i \in 1 .. Len(directory')}
<1>1. ASSUME CallTypes
      PROVE  Possible = {load_snapshot(files, directory[i].path) : i \in 1 .. Len(directory)}
  <2>1. DOMAIN directory = 1 .. Len(directory)
    BY <1>1 DEF CallTypes
  <2> QED
    BY <2>1, Zenon DEF Possible, Range
<1>2. ASSUME CallTypes'
      PROVE  Possible' = {load_snapshot(files', directory'[i].path) : i \in 1 .. Len(directory')}
  <2>1. DOMAIN directory' = 1 .. Len(directory')
    BY <1>2 DEF CallTypes
  <2> QED
    BY <2>1, Zenon DEF Possible, Range
<1> QED
  BY <1>1, <1>2

LEMMA DirType ==
    ASSUME CallTypes
    PROVE  /\ Len(directory) \in 1 .. Len(directory) /\ Len(directory) \in Nat
           /\ Dir \in Entry /\ Dir = directory[Len(directory)]
<1>1. Len(directory) \in Nat /\ Len(directory) \in 1 .. Len(directory)
  BY DEF CallTypes
<1> QED
  BY <1>1, ElementOfSeq DEF CallTypes, Dir

\* What is at path in a state of the directory is a snapshot, or nothing.
LEMMA LoadType ==
    ASSUME CallTypes, NEW d, Restorable(d)
    PROVE  load_snapshot(files, d.path) \in 0 .. calls
<1>1. CASE d.path = NoFile
  BY <1>1 DEF load_snapshot, CallTypes
<1>2. CASE d.path # NoFile
  <2>1. PICK n \in 1 .. calls : files[d.path] = Complete(n)
    BY <1>2 DEF Restorable
  <2>2. n \in Numbers /\ n \in 0 .. calls
    BY SnapshotAssumption DEF CallTypes, Numbers
  <2> QED
    BY <1>2, <2>1, <2>2, LoadComplete
<1> QED
  BY <1>1, <1>2

LEMMA VisiblePossible ==
    ASSUME CallTypes
    PROVE  Visible \in Possible
<1>1. Len(directory) \in 1 .. Len(directory) /\ Dir = directory[Len(directory)]
  BY DirType
<1> QED
  BY <1>1, PossibleByIndex DEF Visible

LEMMA Undisturbed ==
    ASSUME CallTypes, DirectoryInv, UNCHANGED <<directory, durable>>,
           calls' \in Nat, calls' >= calls, Len(files') = Len(files),
           \A i \in 1 .. Len(directory) :
              directory[i].path # NoFile => files'[directory[i].path] = files[directory[i].path]
    PROVE  /\ DirectoryInv' /\ Dir' = Dir /\ Visible' = Visible
           /\ CallTypes' => Possible' = Possible
           /\ \A i \in 1 .. Len(directory) :
                 load_snapshot(files', directory'[i].path) = load_snapshot(files, directory[i].path)
<1>1. Dir' = Dir
  BY DEF Dir
<1>2. ASSUME NEW i \in 1 .. Len(directory)
      PROVE  /\ Restorable(directory[i])'
             /\ load_snapshot(files', directory'[i].path) = load_snapshot(files, directory[i].path)
  <2>1. directory[i].path # NoFile => files'[directory[i].path] = files[directory[i].path]
    OBVIOUS
  <2>2. load_snapshot(files', directory[i].path) = load_snapshot(files, directory[i].path)
    BY <2>1, LoadKept
  <2>3. Restorable(directory[i])
    BY DEF DirectoryInv
  <2>4. 1 .. calls \subseteq 1 .. calls'
    BY DEF CallTypes
  <2>5. directory[i].path # NoFile => \E n \in 1 .. calls' : files'[directory[i].path] = Complete(n)
    BY <2>1, <2>3, <2>4, Zenon DEF Restorable
  <2>6. Restorable(directory[i])'
    BY <1>1, <2>2, <2>3, <2>5, Zenon DEF Restorable
  <2> QED
    BY <2>2, <2>6, Zenon
<1>3. Visible' = Visible
  <2>1. Len(directory) \in 1 .. Len(directory) /\ Dir = directory[Len(directory)]
    BY DirType
  <2> QED
    BY <1>1, <1>2, <2>1 DEF Visible
<1>4. CallTypes' => Possible' = Possible
  <2> DEFINE before(i) == load_snapshot(files, directory[i].path)
             after(i) == load_snapshot(files', directory'[i].path)
  <2>1. \A i \in 1 .. Len(directory) : after(i) = before(i)
    BY <1>2
  <2>2. Possible = {before(i) : i \in 1 .. Len(directory)}
    BY PossibleByIndex, Zenon
  <2>3. CallTypes' => Possible' = {after(i) : i \in 1 .. Len(directory)}
    BY PossibleByIndex, Zenon
  <2> HIDE DEF before, after
  <2> QED
    BY <2>1, <2>2, <2>3
<1> QED
  BY <1>1, <1>2, <1>3, <1>4 DEF DirectoryInv

LEMMA EntryAdded ==
    ASSUME CallTypes, DirectoryInv, UNCHANGED durable, NEW d \in Entry,
           directory' = Append(directory, d),
           calls' \in Nat, calls' >= calls, Len(files') \in Nat, Len(files') >= Len(files),
           \A i \in 1 .. Len(directory) : directory[i].path # NoFile =>
              files'[directory[i].path] = files[directory[i].path] /\ directory[i].path # d.tmp,
           d.tmp <= Len(files'), d.path <= Len(files'),
           d.path # NoFile =>
              (\E n \in 1 .. calls' : files'[d.path] = Complete(n)) /\ d.path # d.tmp,
           durable.snapshot <= load_snapshot(files', d.path),
           durable.log => d.log
    PROVE  /\ DirectoryInv' /\ Dir' = d /\ Visible' = load_snapshot(files', d.path)
           /\ CallTypes' => Possible' = Possible \cup {Visible'}
           /\ directory' \in Seq(Entry) /\ Len(directory') = Len(directory) + 1
           /\ \A i \in 1 .. Len(directory) :
                 load_snapshot(files', directory'[i].path) = load_snapshot(files, directory[i].path)
<1>1. /\ directory' \in Seq(Entry) /\ Len(directory') = Len(directory) + 1
      /\ directory'[Len(directory) + 1] = d
      /\ \A i \in 1 .. Len(directory) : directory'[i] = directory[i]
  <2>1. directory \in Seq(Entry)
    BY Zenon DEF CallTypes
  <2>2. /\ Append(directory, d) \in Seq(Entry) /\ Len(Append(directory, d)) = Len(directory) + 1
        /\ Append(directory, d)[Len(directory) + 1] = d
        /\ \A i \in 1 .. Len(directory) : Append(directory, d)[i] = directory[i]
    BY <2>1, Extended
  <2> QED
    BY <2>2, Zenon
<1>2. Dir' = d
  BY <1>1 DEF Dir
<1>3. ASSUME NEW i \in 1 .. Len(directory)
      PROVE  /\ Restorable(directory[i])'
             /\ load_snapshot(files', directory'[i].path) = load_snapshot(files, directory[i].path)
  <2>1. directory[i].path # NoFile =>
           files'[directory[i].path] = files[directory[i].path] /\ directory[i].path # d.tmp
    OBVIOUS
  <2>2. load_snapshot(files', directory[i].path) = load_snapshot(files, directory[i].path)
    BY <2>1, LoadKept
  <2>3. Restorable(directory[i]) /\ directory[i] \in Entry
    BY ElementOfSeq DEF DirectoryInv, CallTypes
  <2>4. 1 .. calls \subseteq 1 .. calls'
    BY DEF CallTypes
  <2>5. directory[i].path # NoFile => \E n \in 1 .. calls' : files'[directory[i].path] = Complete(n)
    BY <2>1, <2>3, <2>4, Zenon DEF Restorable
  <2>6. directory'[i] = directory[i]
    BY <1>1
  <2>7. directory[i].tmp <= Len(files') /\ directory[i].path <= Len(files')
    <3>1. Len(files) \in Nat
      BY DEF CallTypes
    <3>2. directory[i].tmp \in Nat /\ directory[i].path \in Nat
      BY <2>3 DEF Entry
    <3> QED
      BY <2>3, <3>1, <3>2 DEF Restorable
  <2> QED
    BY <1>2, <2>1, <2>2, <2>3, <2>5, <2>6, <2>7, Zenon DEF Restorable
<1>4. Restorable(directory[Len(directory)])'
  <2>1. directory'[Len(directory')] = d
    BY <1>1
  <2> QED
    BY <1>2, <2>1, Zenon DEF Restorable
<1>5. \A i \in 1 .. Len(directory') : i \in 1 .. Len(directory) \/ i = Len(directory')
  BY <1>1 DEF CallTypes
<1>6. Visible' = load_snapshot(files', d.path)
  BY <1>2 DEF Visible
<1>7. CallTypes' => Possible' = Possible \cup {Visible'}
  <2> SUFFICES ASSUME CallTypes' PROVE Possible' = Possible \cup {Visible'}
    OBVIOUS
  <2> DEFINE load(i) == load_snapshot(files', directory'[i].path)
  <2>1. 1 .. Len(directory') = 1 .. Len(directory) \cup {Len(directory')}
    BY <1>1 DEF CallTypes
  <2>2. load(Len(directory')) = Visible'
    BY <1>1, <1>6
  <2>3. {load(i) : i \in 1 .. Len(directory)} = Possible
    BY <1>3, PossibleByIndex
  <2>4. Possible' = {load(i) : i \in 1 .. Len(directory')}
    BY PossibleByIndex, Zenon
  <2> HIDE DEF load
  <2> QED
    BY <2>1, <2>2, <2>3, <2>4
<1> QED
  BY <1>1, <1>2, <1>3, <1>4, <1>5, <1>6, <1>7, Zenon DEF DirectoryInv

LEMMA CallStep ==
    ASSUME CallTypes, NEW w \in Writers, NEW c \in Calls,
           call' = [call EXCEPT ![w] = c],
           \A v \in Writers \ {w} : call[v] = Idle,
           c # Idle => InProgress(w)' /\ c.at # "idle"
    PROVE  OneInFlight' /\ CallInv' /\ call' \in [Writers -> Calls]
<1>1. call \in [Writers -> Calls]
  BY Zenon DEF CallTypes, Calls
<1>2. call'[w] = c /\ \A v \in Writers \ {w} : call'[v] = Idle
  BY <1>1
<1>3. call' \in [Writers -> Calls]
  BY <1>1
<1> QED
  BY <1>2, <1>3, Zenon DEF OneInFlight, CallInv

\* Calls that do not overlap.
LEMMA NobodyElse ==
    ASSUME ~ Overlapping, NEW w \in Writers, Called(w)
    PROVE  \A v \in Writers : call[v] = Idle
  BY DEF Called, InFlight

LEMMA OthersIdle ==
    ASSUME OneInFlight, NEW w \in Writers, call[w] # Idle
    PROVE  \A v \in Writers \ {w} : call[v] = Idle
  BY DEF OneInFlight

----------------------------------------------------------------------------
(* The steps. *)

LEMMA InitSnapshot == Init => SnapshotInv
<1> SUFFICES ASSUME Init PROVE SnapshotInv
  OBVIOUS
<1> DEFINE d == [tmp |-> NoFile, path |-> NoFile, log |-> FALSE]
<1>1. d \in Entry /\ d.tmp = 0 /\ d.path = 0
  BY DEF Entry, NoFile
<1>2. directory \in Seq(Entry) /\ Len(directory) = 1 /\ directory[1] = d /\ Dir = d
  <2>1. <<d>> \in Seq(Entry) /\ Len(<<d>>) = 1 /\ <<d>>[1] = d
    BY <1>1, Singleton, Zenon
  <2>2. directory = <<d>>
    BY DEF Init
  <2> HIDE DEF d
  <2> QED
    BY <2>1, <2>2 DEF Dir
<1>3. files \in Seq(File) /\ Len(files) = 0
  BY DEF Init
<1>4. durable \in [snapshot : Nat, log : BOOLEAN] /\ durable.snapshot = 0 /\ durable.log = FALSE
  BY DEF Init
<1>5. Restorable(d)
  <2>1. load_snapshot(files, d.path) = 0
    BY <1>1 DEF load_snapshot, NoFile
  <2> HIDE DEF d
  <2> QED
    BY <1>1, <1>3, <1>4, <2>1 DEF Restorable, NoFile
<1>6. DirectoryInv
  <2> HIDE DEF d
  <2> QED
    BY <1>2, <1>5 DEF DirectoryInv
<1>7. Idle \in Calls /\ call = [w \in Writers |-> Idle]
  BY DEF Init, Idle, Calls, NoFile
<1>8. CallTypes
  <2>1. calls \in 0 .. Len(Accounts)
    BY SnapshotAssumption DEF Init
  <2>2. call \in [Writers -> Calls]
    BY <1>7
  <2> QED
    BY <1>2, <1>3, <1>4, <2>1, <2>2 DEF CallTypes, Calls
<1> QED
  BY <1>6, <1>7, <1>8 DEF SnapshotInv, OneInFlight, CallInv

\* Steps that change nothing but calls, while none is in flight, or that end
\* a call without touching the files.
LEMMA ReturnStep ==
    ASSUME SnapshotInv, NEW w \in Writers, call[w] # Idle, Return(w),
           UNCHANGED <<files, directory, calls, durable>>
    PROVE  SnapshotInv' /\ UNCHANGED <<Visible, Possible>>
<1>1. Idle \in Calls /\ Idle.at = "idle"
  BY DEF Idle, Calls, NoFile
<1>2. OneInFlight' /\ CallInv' /\ call' \in [Writers -> Calls]
  BY <1>1, CallStep, OthersIdle, Zenon DEF Return, SnapshotInv
<1>3. CallTypes'
  BY <1>2 DEF SnapshotInv, CallTypes, Calls
<1>4. DirectoryInv' /\ UNCHANGED <<Visible, Possible>>
  <2>1. calls \in Nat
    BY SnapshotAssumption DEF SnapshotInv, CallTypes
  <2>2. CallTypes /\ DirectoryInv /\ calls' \in Nat /\ calls' >= calls
    BY <2>1 DEF SnapshotInv
  <2> QED
    BY <1>3, <2>2, Undisturbed
<1> QED
  BY <1>2, <1>3, <1>4 DEF SnapshotInv

LEMMA OpenFailsStep ==
    ASSUME ~ Overlapping, SnapshotInv, NEW w \in Writers, OpenFails(w)
    PROVE  SnapshotInv' /\ UNCHANGED <<Visible, Possible>>
<1>1. calls \in Nat /\ calls' = calls + 1 /\ calls' \in 0 .. Len(Accounts)
  BY SnapshotAssumption DEF SnapshotInv, CallTypes, OpenFails, Called
<1>2. \A v \in Writers : call[v] = Idle
  BY NobodyElse DEF OpenFails, SnapshotInv
<1>3. UNCHANGED <<files, directory, call, durable>>
  BY DEF OpenFails
<1>4. CallTypes /\ DirectoryInv
  BY DEF SnapshotInv
<1>5. CallTypes'
  BY <1>1, <1>3, <1>4 DEF CallTypes
<1>6. DirectoryInv' /\ UNCHANGED <<Visible, Possible>>
  BY <1>1, <1>3, <1>4, <1>5, Undisturbed
<1>7. OneInFlight' /\ CallInv'
  BY <1>2, <1>3 DEF OneInFlight, CallInv
<1> QED
  BY <1>5, <1>6, <1>7 DEF SnapshotInv

LEMMA NumbersType ==
    ASSUME CallTypes
    PROVE  calls \in Nat /\ Len(Accounts) \in Nat /\ (calls # 0 => calls \in Numbers) /\ Len(files) \in Nat
  BY SnapshotAssumption DEF CallTypes, Numbers

LEMMA OpenLogStep ==
    ASSUME SnapshotInv, OpenLog
    PROVE  SnapshotInv' /\ UNCHANGED <<Visible, Possible>>
<1> DEFINE d == [Dir EXCEPT !.log = TRUE]
<1>0. CallTypes /\ DirectoryInv /\ calls \in Nat /\ Len(files) \in Nat
  BY NumbersType DEF SnapshotInv
<1>1. /\ Dir \in Entry /\ Dir = directory[Len(directory)]
      /\ Len(directory) \in 1 .. Len(directory)
  BY <1>0, DirType
<1>2. d \in Entry /\ d.tmp = Dir.tmp /\ d.path = Dir.path /\ d.log = TRUE
  BY <1>1, Zenon DEF Entry
<1>3. directory' = Append(directory, d) /\ UNCHANGED <<files, call, calls, durable>>
  BY DEF OpenLog
<1>4. \A v \in Writers : call[v] = Idle
  BY DEF OpenLog, InFlight
<1>5. Restorable(Dir)
  BY <1>0, <1>1 DEF DirectoryInv
<1> HIDE DEF d
<1>6. \A i \in 1 .. Len(directory) : directory[i].path # NoFile => directory[i].path # d.tmp
  BY <1>0, <1>2 DEF DirectoryInv, Restorable
<1>7. /\ DirectoryInv' /\ Dir' = d /\ Visible' = load_snapshot(files', d.path)
      /\ CallTypes' => Possible' = Possible \cup {Visible'}
      /\ directory' \in Seq(Entry) /\ Len(directory') = Len(directory) + 1
  <2>1. /\ d.tmp <= Len(files') /\ d.path <= Len(files')
        /\ d.path # NoFile => (\E n \in 1 .. calls' : files'[d.path] = Complete(n)) /\ d.path # d.tmp
        /\ durable.snapshot <= load_snapshot(files', d.path)
        /\ durable.log => d.log
    BY <1>2, <1>3, <1>5, Zenon DEF Restorable
  <2>2. /\ calls' \in Nat /\ calls' >= calls /\ Len(files') \in Nat /\ Len(files') >= Len(files)
    BY <1>0, <1>3
  <2>3. \A i \in 1 .. Len(directory) : directory[i].path # NoFile =>
              files'[directory[i].path] = files[directory[i].path] /\ directory[i].path # d.tmp
    BY <1>3, <1>6, Zenon
  <2> QED
    BY <1>0, <1>2, <1>3, <2>1, <2>2, <2>3, EntryAdded, Zenon
<1>8. CallTypes'
  BY <1>0, <1>3, <1>7 DEF CallTypes
<1>9. OneInFlight' /\ CallInv'
  BY <1>3, <1>4 DEF OneInFlight, CallInv
<1>10. UNCHANGED <<Visible, Possible>>
  <2>1. Visible' = Visible
    BY <1>2, <1>3, <1>7 DEF Visible
  <2>2. Visible \in Possible
    BY <1>0, VisiblePossible
  <2> QED
    BY <1>7, <1>8, <2>1, <2>2, Zenon
<1> QED
  BY <1>7, <1>8, <1>9, <1>10 DEF SnapshotInv

\* Open, when there is no temporary file.
LEMMA CreateStep ==
    ASSUME ~ Overlapping, SnapshotInv, NEW w \in Writers, Open(w), Dir.tmp = NoFile
    PROVE  SnapshotInv' /\ UNCHANGED <<Visible, Possible>>
<1> DEFINE e == [units |-> <<>>, synced |-> <<>>, dirty |-> FALSE]
           d == [Dir EXCEPT !.tmp = Len(files) + 1]
           c == [at |-> "opened", snapshot |-> calls + 1, file |-> Len(files) + 1, offset |-> 0]
<1>0. /\ CallTypes /\ DirectoryInv /\ OneInFlight /\ calls \in Nat /\ Len(files) \in Nat
      /\ files \in Seq(File)
  BY NumbersType DEF SnapshotInv, CallTypes
<1>1. /\ Dir \in Entry /\ Dir = directory[Len(directory)]
      /\ Len(directory) \in 1 .. Len(directory)
  BY <1>0, DirType
<1>2. /\ d \in Entry /\ d.tmp = Len(files) + 1 /\ d.path = Dir.path /\ d.log = Dir.log
      /\ d.path \in Nat
  BY <1>0, <1>1 DEF Entry
<1>3. /\ directory' = Append(directory, d) /\ files' = Append(files, e)
      /\ call' = [call EXCEPT ![w] = c] /\ durable' = durable /\ calls' = calls + 1
  BY DEF Open, Opened, Called
<1>4. \A v \in Writers : call[v] = Idle
  BY <1>0, NobodyElse, Zenon DEF Open
<1>5. Restorable(Dir) /\ \A i \in 1 .. Len(directory) : Restorable(directory[i])
  BY <1>0, <1>1 DEF DirectoryInv
<1>6. e \in File /\ e.units = <<>>
  BY DEF File
<1>7. c \in Calls /\ c.at = "opened" /\ c.file = Len(files) + 1 /\ c.offset = 0 /\ c.snapshot = calls'
  BY <1>0, <1>3 DEF Calls
<1> HIDE DEF d, e, c
<1>8. /\ files' \in Seq(File) /\ Len(files') = Len(files) + 1 /\ files'[Len(files) + 1] = e
      /\ \A i \in 1 .. Len(files) : files'[i] = files[i]
  <2>1. /\ Append(files, e) \in Seq(File) /\ Len(Append(files, e)) = Len(files) + 1
        /\ Append(files, e)[Len(files) + 1] = e
        /\ \A i \in 1 .. Len(files) : Append(files, e)[i] = files[i]
    BY <1>0, <1>6, Extended
  <2> QED
    BY <1>3, <2>1, Zenon
<1>9. ASSUME NEW i \in 1 .. Len(directory), directory[i].path # NoFile
      PROVE  /\ files'[directory[i].path] = files[directory[i].path] /\ directory[i].path # d.tmp
  <2>1. directory[i] \in Entry
    BY <1>0, ElementOfSeq DEF CallTypes
  <2>2. directory[i].path \in 1 .. Len(files)
    BY <1>0, <1>5, <1>9, <2>1 DEF Restorable, Entry, NoFile
  <2> QED
    BY <1>0, <1>2, <1>8, <2>2
<1>10. calls' \in Nat /\ calls' >= calls /\ Len(files') \in Nat /\ Len(files') >= Len(files)
  BY <1>0, <1>3, <1>8
<1>11. load_snapshot(files', Dir.path) = load_snapshot(files, Dir.path)
  BY <1>1, <1>9, LoadKept
<1>12. /\ d.tmp <= Len(files') /\ d.path <= Len(files')
       /\ d.path # NoFile => (\E n \in 1 .. calls' : files'[d.path] = Complete(n)) /\ d.path # d.tmp
       /\ durable.snapshot <= load_snapshot(files', d.path)
       /\ durable.log => d.log
  <2>1. d.tmp <= Len(files') /\ d.path <= Len(files')
    BY <1>0, <1>2, <1>5, <1>8 DEF Restorable
  <2>2. 1 .. calls \subseteq 1 .. calls'
    BY <1>0, <1>10
  <2>3. ASSUME d.path # NoFile
        PROVE  (\E n \in 1 .. calls' : files'[d.path] = Complete(n)) /\ d.path # d.tmp
    <3>1. files'[d.path] = files[d.path] /\ d.path # d.tmp
      BY <1>1, <1>2, <1>9, <2>3
    <3> QED
      BY <1>2, <1>5, <2>2, <2>3, <3>1, Zenon DEF Restorable
  <2> QED
    BY <1>2, <1>5, <1>11, <2>1, <2>3, Zenon DEF Restorable
<1>13. /\ DirectoryInv' /\ Dir' = d /\ Visible' = load_snapshot(files', d.path)
       /\ CallTypes' => Possible' = Possible \cup {Visible'}
       /\ directory' \in Seq(Entry) /\ Len(directory') = Len(directory) + 1
       /\ \A i \in 1 .. Len(directory) :
            load_snapshot(files', directory'[i].path) = load_snapshot(files, directory[i].path)
  BY <1>0, <1>2, <1>3, <1>9, <1>10, <1>12, EntryAdded, Zenon
<1>14. InProgress(w)'
  <2>1. call'[w] = c
    BY <1>0, <1>3 DEF CallTypes
  <2>2. ASSUME NEW i \in 1 .. Len(directory')
        PROVE  load_snapshot(files', directory'[i].path) < calls'
    <3>1. CASE i \in 1 .. Len(directory)
      BY <1>0, <1>3, <1>5, <1>13, <3>1, LoadType
    <3>2. CASE i = Len(directory')
      <4>1. directory'[i] = d
        BY <1>13, <3>2 DEF Dir
      <4>2. load_snapshot(files, Dir.path) \in 0 .. calls
        BY <1>0, <1>5, LoadType
      <4> QED
        BY <1>0, <1>2, <1>3, <1>11, <4>1, <4>2
    <3>3. i \in 1 .. Len(directory) \/ i = Len(directory')
      BY <1>1, <1>13
    <3> QED
      BY <3>1, <3>2, <3>3
  <2>3. calls' # 0 /\ c.file = Dir'.tmp /\ c.file # NoFile /\ files'[c.file].units = <<>>
    BY <1>0, <1>2, <1>3, <1>6, <1>7, <1>8, <1>13 DEF NoFile
  <2> QED
    BY <1>7, <2>1, <2>2, <2>3 DEF InProgress
<1>15. OneInFlight' /\ CallInv' /\ call' \in [Writers -> Calls]
  BY <1>0, <1>3, <1>4, <1>7, <1>14, CallStep, Zenon
<1>16. CallTypes'
  <2>1. calls' \in 0 .. Len(Accounts) /\ Len(directory') >= 1
    BY <1>0, <1>1, <1>3, <1>13, SnapshotAssumption DEF Open, Called
  <2> QED
    BY <1>0, <1>3, <1>8, <1>13, <1>15, <2>1 DEF CallTypes, Calls
<1>17. UNCHANGED <<Visible, Possible>>
  <2>1. Visible' = Visible
    BY <1>2, <1>11, <1>13 DEF Visible
  <2>2. Visible \in Possible
    BY <1>0, VisiblePossible
  <2> QED
    BY <1>13, <1>16, <2>1, <2>2, Zenon
<1> QED
  BY <1>13, <1>15, <1>16, <1>17 DEF SnapshotInv

\* Whatever is written to the temporary file stays out of sight.
LEMMA TemporaryWritten ==
    ASSUME CallTypes, DirectoryInv, UNCHANGED <<directory, durable>>,
           calls' \in Nat, calls' >= calls, Dir.tmp # NoFile,
           NEW g \in File, files' = [files EXCEPT ![Dir.tmp] = g]
    PROVE  /\ DirectoryInv' /\ Dir' = Dir /\ Visible' = Visible
           /\ CallTypes' => Possible' = Possible
           /\ \A i \in 1 .. Len(directory) :
                 load_snapshot(files', directory'[i].path) = load_snapshot(files, directory[i].path)
           /\ files' \in Seq(File) /\ files'[Dir.tmp] = g
<1>1. /\ Dir \in Entry /\ Dir = directory[Len(directory)]
      /\ Len(directory) \in 1 .. Len(directory)
  BY DirType
<1>2. files \in Seq(File) /\ Len(files) \in Nat
  BY DEF CallTypes
<1>3. Dir.tmp \in 1 .. Len(files)
  BY <1>1, <1>2 DEF DirectoryInv, Restorable, Entry, NoFile
<1>4. /\ files' \in Seq(File) /\ Len(files') = Len(files)
      /\ \A j \in 1 .. Len(files) : files'[j] = IF j = Dir.tmp THEN g ELSE files[j]
  <2>1. PICK t \in 1 .. Len(files) : t = Dir.tmp
    BY <1>3
  <2>2. files' = [files EXCEPT ![t] = g]
    BY <2>1
  <2> QED
    BY <1>2, <2>1, <2>2, ExceptSeq
<1>5. ASSUME NEW i \in 1 .. Len(directory), directory[i].path # NoFile
      PROVE  files'[directory[i].path] = files[directory[i].path]
  <2>1. directory[i] \in Entry
    BY ElementOfSeq DEF CallTypes
  <2>2. directory[i].path \in 1 .. Len(files) /\ directory[i].path # Dir.tmp
    BY <1>2, <1>5, <2>1 DEF DirectoryInv, Restorable, Entry, NoFile
  <2> QED
    BY <1>4, <2>2
<1> QED
  BY <1>3, <1>4, <1>5, Undisturbed, Zenon

LEMMA UnitsWritten ==
    ASSUME NEW t \in 1 .. Len(files), NEW units \in Seq(Unit), files \in Seq(File),
           files' = [files EXCEPT ![t].units = units, ![t].dirty = TRUE]
    PROVE  \E g \in File : files' = [files EXCEPT ![t] = g] /\ g.units = units
<1> DEFINE g == [files[t] EXCEPT !.units = units, !.dirty = TRUE]
<1>1. files[t] \in File
  BY ElementOfSeq
<1>2. g \in File /\ g.units = units
  BY <1>1, Zenon DEF File
<1>3. files' = [files EXCEPT ![t] = g]
  BY Zenon
<1> QED
  BY <1>2, <1>3, Zenon

LEMMA TruncateStep ==
    ASSUME ~ Overlapping, SnapshotInv, NEW w \in Writers, Open(w), Dir.tmp # NoFile
    PROVE  SnapshotInv' /\ UNCHANGED <<Visible, Possible>>
<1> DEFINE c == [at |-> "opened", snapshot |-> calls + 1, file |-> Dir.tmp, offset |-> 0]
<1>0. /\ CallTypes /\ DirectoryInv /\ OneInFlight /\ calls \in Nat /\ Len(files) \in Nat
      /\ files \in Seq(File)
  BY NumbersType DEF SnapshotInv, CallTypes
<1>1. /\ Dir \in Entry /\ Dir = directory[Len(directory)]
      /\ Len(directory) \in 1 .. Len(directory)
  BY <1>0, DirType
<1>2. /\ files' = [files EXCEPT ![Dir.tmp].units = <<>>, ![Dir.tmp].dirty = TRUE]
      /\ call' = [call EXCEPT ![w] = c] /\ UNCHANGED <<directory, durable>> /\ calls' = calls + 1
  BY DEF Open, Opened, Called
<1>3. \A v \in Writers : call[v] = Idle
  BY <1>0, NobodyElse, Zenon DEF Open
<1>4. Dir.tmp \in 1 .. Len(files)
  BY <1>0, <1>1 DEF DirectoryInv, Restorable, Entry, NoFile
<1>5. PICK g \in File : files' = [files EXCEPT ![Dir.tmp] = g] /\ g.units = <<>>
  <2>1. <<>> \in Seq(Unit)
    OBVIOUS
  <2> QED
    BY <1>0, <1>2, <1>4, <2>1, UnitsWritten, Zenon
<1>6. calls' \in Nat /\ calls' >= calls
  BY <1>0, <1>2
<1>7. /\ DirectoryInv' /\ Dir' = Dir /\ Visible' = Visible
      /\ CallTypes' => Possible' = Possible
      /\ \A i \in 1 .. Len(directory) :
            load_snapshot(files', directory'[i].path) = load_snapshot(files, directory[i].path)
      /\ files' \in Seq(File) /\ files'[Dir.tmp] = g
  BY <1>0, <1>2, <1>5, <1>6, TemporaryWritten, Zenon
<1>8. c \in Calls /\ c.at = "opened" /\ c.file = Dir.tmp /\ c.offset = 0 /\ c.snapshot = calls'
  BY <1>0, <1>2, <1>4 DEF Calls
<1> HIDE DEF c
<1>9. InProgress(w)'
  <2>1. call'[w] = c
    BY <1>0, <1>2 DEF CallTypes
  <2>2. ASSUME NEW i \in 1 .. Len(directory')
        PROVE  load_snapshot(files', directory'[i].path) < calls'
    <3>1. i \in 1 .. Len(directory)
      BY <1>2
    <3>2. Restorable(directory[i])
      BY <1>0, <3>1 DEF DirectoryInv
    <3>3. load_snapshot(files, directory[i].path) \in 0 .. calls
      BY <1>0, <3>2, LoadType
    <3>4. load_snapshot(files', directory'[i].path) = load_snapshot(files, directory[i].path)
      BY <1>7, <3>1, Zenon
    <3> QED
      BY <1>0, <1>2, <3>3, <3>4
  <2>3. calls' # 0 /\ c.file = Dir'.tmp /\ c.file # NoFile /\ files'[c.file].units = <<>>
    BY <1>0, <1>2, <1>5, <1>7, <1>8
  <2> QED
    BY <1>8, <2>1, <2>2, <2>3 DEF InProgress
<1>10. OneInFlight' /\ CallInv' /\ call' \in [Writers -> Calls]
  BY <1>0, <1>2, <1>3, <1>8, <1>9, CallStep, Zenon
<1>11. CallTypes'
  <2>1. calls' \in 0 .. Len(Accounts)
    BY <1>0, <1>2, SnapshotAssumption DEF Open, Called
  <2> QED
    BY <1>0, <1>2, <1>7, <1>10, <2>1 DEF CallTypes, Calls
<1> QED
  BY <1>7, <1>10, <1>11 DEF SnapshotInv

\* What the invariant says of a call that has not renamed its file.
LEMMA Writing ==
    ASSUME SnapshotInv, NEW w \in Writers, call[w].at \in Unrenamed
    PROVE  /\ InProgress(w) /\ call[w] # Idle
           /\ call[w].file = Dir.tmp /\ Dir.tmp # NoFile /\ Dir.tmp \in 1 .. Len(files)
           /\ files[Dir.tmp] \in File /\ Dir \in Entry
           /\ calls \in Numbers /\ calls \in Nat /\ call[w].snapshot = calls
           /\ call[w] \in Calls /\ \A v \in Writers \ {w} : call[v] = Idle
           /\ CallTypes /\ DirectoryInv
<1>1. CallTypes /\ DirectoryInv /\ OneInFlight /\ CallInv
  BY DEF SnapshotInv
<1>2. call[w] # Idle
  BY DEF Unrenamed, Idle
<1>3. InProgress(w)
  BY <1>1, <1>2 DEF CallInv
<1>4. call[w].file = Dir.tmp /\ Dir.tmp # NoFile /\ call[w].snapshot = calls /\ calls # 0
  BY <1>3 DEF InProgress
<1>5. Len(directory) \in 1 .. Len(directory) /\ Dir \in Entry /\ Dir = directory[Len(directory)]
  BY <1>1, DirType
<1>6. Dir.tmp \in 1 .. Len(files)
  BY <1>1, <1>4, <1>5, NumbersType DEF DirectoryInv, Restorable, Entry, NoFile
<1>7. files[Dir.tmp] \in File
  BY <1>1, <1>6, ElementOfSeq DEF CallTypes
<1> QED
  BY <1>1, <1>2, <1>3, <1>4, <1>5, <1>6, <1>7, NumbersType, OthersIdle, SMTT(30) DEF CallTypes, Calls

\* A step of such a call that writes its file or syncs it.
LEMMA ContentStep ==
    ASSUME SnapshotInv, NEW w \in Writers, call[w].at \in Unrenamed,
           NEW g \in File, files' = [files EXCEPT ![Dir.tmp] = g],
           UNCHANGED <<directory, calls, durable>>,
           NEW c \in Calls, call' = [call EXCEPT ![w] = c],
           c # Idle => /\ c.snapshot = calls /\ c.file = Dir.tmp /\ c.at \in Unrenamed
                       /\ c.at = "opened" => g.units = <<>> /\ c.offset = 0
                       /\ c.at = "buffer" => g.units = Buffer(calls) /\ c.offset = Len(Buffer(calls))
                       /\ c.at = "crc" => g.units = Whole(calls)
                       /\ c.at = "synced" => g = Complete(calls)
    PROVE  SnapshotInv' /\ UNCHANGED <<Visible, Possible>>
<1>1. /\ InProgress(w) /\ Dir.tmp # NoFile /\ CallTypes /\ DirectoryInv /\ calls \in Nat
      /\ calls \in Numbers /\ \A v \in Writers \ {w} : call[v] = Idle
  BY Writing
<1>2. calls' \in Nat /\ calls' >= calls
  BY <1>1
<1>3. /\ DirectoryInv' /\ Dir' = Dir /\ Visible' = Visible
      /\ CallTypes' => Possible' = Possible
      /\ \A i \in 1 .. Len(directory) :
            load_snapshot(files', directory'[i].path) = load_snapshot(files, directory[i].path)
      /\ files' \in Seq(File) /\ files'[Dir.tmp] = g
  BY <1>1, <1>2, TemporaryWritten, Zenon
<1>4. ASSUME c # Idle PROVE InProgress(w)' /\ c.at # "idle"
  <2>1. call'[w] = c
    BY <1>1 DEF CallTypes
  <2>2. \A i \in 1 .. Len(directory') : load_snapshot(files', directory'[i].path) < calls'
    BY <1>1, <1>3, Zenon DEF InProgress
  <2>3. calls' # 0 /\ c.file = Dir'.tmp /\ c.file # NoFile /\ files'[c.file] = g
    BY <1>1, <1>3, <1>4 DEF InProgress
  <2> QED
    BY <1>4, <2>1, <2>2, <2>3, Zenon DEF InProgress, Unrenamed
<1>5. OneInFlight' /\ CallInv' /\ call' \in [Writers -> Calls]
  BY <1>1, <1>4, CallStep, Zenon
<1>6. CallTypes'
  BY <1>1, <1>3, <1>5 DEF CallTypes, Calls
<1> QED
  BY <1>3, <1>5, <1>6 DEF SnapshotInv

LEMMA WriteStep ==
    ASSUME SnapshotInv, NEW w \in Writers, Write(w)
    PROVE  SnapshotInv' /\ UNCHANGED <<Visible, Possible>>
<1> DEFINE new == NextWrite(w)
           units == WriteAt(files[Dir.tmp].units, call[w].offset, new)
           c == [call[w] EXCEPT !.at = IF @ = "opened" THEN "buffer" ELSE "crc",
                                !.offset = @ + Len(new)]
<1>1. call[w].at \in {"opened", "buffer"} /\ call[w].at \in Unrenamed
  BY DEF Write, Unrenamed
<1>2. /\ InProgress(w) /\ call[w].file = Dir.tmp /\ Dir.tmp \in 1 .. Len(files)
      /\ files[Dir.tmp] \in File /\ calls \in Numbers /\ call[w].snapshot = calls
      /\ call[w] \in Calls /\ CallTypes
  BY <1>1, Writing
<1>3. /\ Buffer(calls) \in Seq(Unit) /\ Len(Buffer(calls)) \in Nat
      /\ Crc(Buffer(calls)) \in Unit /\ Whole(calls) = Buffer(calls) \o <<Crc(Buffer(calls))>>
      /\ <<Crc(Buffer(calls))>> \in Seq(Unit)
  <2>1. Buffer(calls) \in Seq(Unit) /\ Len(Buffer(calls)) \in Nat /\ Crc(Buffer(calls)) \in Unit
    <3>1. Buffer(calls) \in Seq(Unit) /\ Crc(Buffer(calls)) \in Unit
      BY <1>2, BufferFacts, WholeFacts, Zenon
    <3> QED
      BY <3>1
  <2>2. <<Crc(Buffer(calls))>> \in Seq(Unit)
    BY <2>1, Singleton, Zenon
  <2> QED
    BY <2>1, <2>2 DEF Whole
<1>4. /\ call[w].at = "opened" => new = Buffer(calls) /\ units = Buffer(calls)
      /\ call[w].at = "buffer" => new = <<Crc(Buffer(calls))>> /\ units = Whole(calls)
  <2>1. ASSUME call[w].at = "opened" PROVE new = Buffer(calls) /\ units = Buffer(calls)
    <3>1. new = Buffer(calls) /\ files[Dir.tmp].units = <<>> /\ call[w].offset = 0
      BY <1>2, <2>1 DEF InProgress, NextWrite
    <3>2. <<>> \in Seq(Unit) /\ Len(<<>>) = 0
      OBVIOUS
    <3>3. WriteAt(<<>>, 0, Buffer(calls)) = <<>> \o Buffer(calls)
      BY <1>3, <3>2, WriteAtEnd, Zenon
    <3>4. <<>> \o Buffer(calls) = Buffer(calls)
      BY <1>3
    <3> QED
      BY <3>1, <3>3, <3>4, SMTT(30)
  <2>2. ASSUME call[w].at = "buffer" PROVE new = <<Crc(Buffer(calls))>> /\ units = Whole(calls)
    <3>1. /\ new = <<Crc(Buffer(calls))>>
          /\ files[Dir.tmp].units = Buffer(calls) /\ call[w].offset = Len(Buffer(calls))
      BY <1>2, <2>2 DEF InProgress, NextWrite
    <3>2. WriteAt(Buffer(calls), Len(Buffer(calls)), <<Crc(Buffer(calls))>>) = Whole(calls)
      BY <1>3, WriteAtEnd, Zenon
    <3> QED
      BY <3>1, <3>2
  <2> QED
    BY <2>1, <2>2
<1>5. units \in Seq(Unit) /\ Len(new) \in Nat
  BY <1>1, <1>2, <1>3, <1>4, WholeFacts, Zenon
<1>6. /\ files' = [files EXCEPT ![Dir.tmp].units = units, ![Dir.tmp].dirty = TRUE]
      /\ call' = [call EXCEPT ![w] = c] /\ UNCHANGED <<directory, calls, durable>>
  BY <1>2, Zenon DEF Write, Written
<1>7. PICK g \in File : files' = [files EXCEPT ![Dir.tmp] = g] /\ g.units = units
  <2> HIDE DEF units
  <2> QED
    BY <1>2, <1>5, <1>6, UnitsWritten, Zenon DEF CallTypes
<1>8. /\ c \in Calls /\ c.snapshot = calls /\ c.file = Dir.tmp /\ c.at \in Unrenamed
      /\ c.at = IF call[w].at = "opened" THEN "buffer" ELSE "crc"
      /\ c.offset = call[w].offset + Len(new)
  <2> HIDE DEF new
  <2>1. call[w].offset + Len(new) \in Nat
    BY <1>2, <1>5 DEF Calls
  <2>2. PICK o \in Nat : o = call[w].offset + Len(new)
    BY <2>1
  <2>3. PICK at \in {"buffer", "crc"} : at = IF call[w].at = "opened" THEN "buffer" ELSE "crc"
    OBVIOUS
  <2>4. c = [call[w] EXCEPT !.at = at, !.offset = o]
    BY <2>2, <2>3
  <2> HIDE DEF c
  <2> QED
    BY <1>2, <2>2, <2>3, <2>4, Zenon DEF Calls, Unrenamed
<1>9. c.at = "buffer" => g.units = Buffer(calls) /\ c.offset = Len(Buffer(calls))
  <2>1. call[w].at = "opened" => call[w].offset = 0
    BY <1>2, SMTT(30) DEF InProgress
  <2> HIDE DEF c, units, new
  <2> QED
    BY <1>3, <1>4, <1>7, <1>8, <2>1, SMTT(30)
<1>10. c.at = "crc" => g.units = Whole(calls)
  <2> HIDE DEF c, units, new
  <2> QED
    BY <1>1, <1>4, <1>7, <1>8
<1>11. c.at \in {"buffer", "crc"}
  BY <1>8, SMTT(30)
<1> HIDE DEF c, units, new
<1> QED
  BY <1>1, <1>6, <1>7, <1>8, <1>9, <1>10, <1>11, ContentStep, Zenon

LEMMA WriteFailsStep ==
    ASSUME SnapshotInv, NEW w \in Writers, WriteFails(w)
    PROVE  SnapshotInv' /\ UNCHANGED <<Visible, Possible>>
<1>1. call[w].at \in {"opened", "buffer"} /\ call[w].at \in Unrenamed
  BY DEF WriteFails, Unrenamed
<1>2. /\ call[w].file = Dir.tmp /\ Dir.tmp \in 1 .. Len(files)
      /\ files[Dir.tmp] \in File /\ calls \in Numbers /\ call[w].snapshot = calls
      /\ call[w] \in Calls /\ CallTypes
  BY <1>1, Writing
<1>3. NextWrite(w) \in Seq(Unit)
  <2>1. Buffer(calls) \in Seq(Unit) /\ Crc(Buffer(calls)) \in Unit
    BY <1>2, BufferFacts, WholeFacts, Zenon
  <2>2. <<Crc(Buffer(calls))>> \in Seq(Unit)
    BY <2>1, Singleton, Zenon
  <2> QED
    BY <1>2, <2>1, <2>2 DEF NextWrite
<1>4. PICK n \in 0 .. Len(NextWrite(w)) - 1 : Written(w, SubSeq(NextWrite(w), 1, n))
  BY DEF WriteFails
<1> DEFINE units == WriteAt(files[Dir.tmp].units, call[w].offset, SubSeq(NextWrite(w), 1, n))
<1>5. units \in Seq(Unit)
  <2>1. SubSeq(NextWrite(w), 1, n) \in Seq(Unit)
    BY <1>3
  <2>2. files[Dir.tmp].units \in Seq(Unit) /\ call[w].offset \in Nat
    BY <1>2 DEF File, Calls
  <2> QED
    BY <2>1, <2>2, WriteAtType, Zenon
<1>6. files' = [files EXCEPT ![Dir.tmp].units = units, ![Dir.tmp].dirty = TRUE]
  BY <1>2, <1>4 DEF Written
<1>7. PICK g \in File : files' = [files EXCEPT ![Dir.tmp] = g] /\ g.units = units
  <2> HIDE DEF units
  <2> QED
    BY <1>2, <1>5, <1>6, UnitsWritten, Zenon DEF CallTypes
<1>8. /\ Idle \in Calls /\ call' = [call EXCEPT ![w] = Idle]
      /\ UNCHANGED <<directory, calls, durable>>
  BY DEF WriteFails, Return, Idle, Calls, NoFile
<1> QED
  BY <1>1, <1>7, <1>8, ContentStep, Zenon

LEMMA SyncStep ==
    ASSUME SnapshotInv, NEW w \in Writers, Sync(w)
    PROVE  SnapshotInv' /\ UNCHANGED <<Visible, Possible>>
<1> DEFINE u == files[Dir.tmp].units
           g == [units |-> u, synced |-> u, dirty |-> FALSE]
           c == [call[w] EXCEPT !.at = "synced"]
<1>1. call[w].at = "crc" /\ call[w].at \in Unrenamed
  BY DEF Sync, Unrenamed
<1>2. /\ InProgress(w) /\ call[w].file = Dir.tmp /\ Dir.tmp \in 1 .. Len(files)
      /\ files[Dir.tmp] \in File /\ calls \in Numbers /\ call[w].snapshot = calls
      /\ call[w] \in Calls
  BY <1>1, Writing
<1>3. g \in File
  BY <1>2 DEF File
<1>4. /\ files' = [files EXCEPT ![Dir.tmp] = g] /\ call' = [call EXCEPT ![w] = c]
      /\ UNCHANGED <<directory, calls, durable>>
  BY <1>2 DEF Sync
<1>5. g = Complete(calls)
  BY <1>1, <1>2, Zenon DEF InProgress, Complete
<1>6. c \in Calls /\ c.snapshot = calls /\ c.file = Dir.tmp /\ c.at = "synced" /\ c.at \in Unrenamed
  BY <1>2 DEF Calls, Unrenamed
<1> HIDE DEF g, c
<1> QED
  BY <1>1, <1>3, <1>4, <1>5, <1>6, ContentStep, Zenon

LEMMA RenameStep ==
    ASSUME SnapshotInv, NEW w \in Writers, Rename(w)
    PROVE  /\ SnapshotInv'
           /\ Visible' \in Nat /\ (\A n \in Possible : Visible' > n)
           /\ Possible' = Possible \cup {Visible'}
<1> DEFINE d == [Dir EXCEPT !.path = Dir.tmp, !.tmp = NoFile]
           c == [call[w] EXCEPT !.at = "renamed"]
<1>1. call[w].at = "synced" /\ call[w].at \in Unrenamed
  BY DEF Rename, Unrenamed
<1>2. /\ InProgress(w) /\ call[w].file = Dir.tmp /\ Dir.tmp # NoFile /\ Dir.tmp \in 1 .. Len(files)
      /\ Dir \in Entry /\ calls \in Numbers /\ calls \in Nat /\ call[w].snapshot = calls
      /\ call[w] \in Calls /\ CallTypes /\ DirectoryInv
      /\ \A v \in Writers \ {w} : call[v] = Idle
  BY <1>1, Writing
<1>3. files[Dir.tmp] = Complete(calls) /\ calls # 0
  BY <1>1, <1>2 DEF InProgress
<1>4. /\ directory' = Append(directory, d) /\ call' = [call EXCEPT ![w] = c]
      /\ UNCHANGED <<files, calls, durable>>
  BY DEF Rename
<1>5. d \in Entry /\ d.path = Dir.tmp /\ d.tmp = NoFile /\ d.log = Dir.log
  BY <1>2, Zenon DEF Entry, NoFile
<1>6. c \in Calls /\ c.at = "renamed" /\ c.snapshot = calls
  BY <1>2 DEF Calls
<1> HIDE DEF c, d
<1>7. load_snapshot(files, d.path) = calls
  BY <1>2, <1>3, <1>5, LoadComplete
<1>8. /\ Len(directory) \in 1 .. Len(directory) /\ Dir = directory[Len(directory)]
      /\ Restorable(Dir)
  <2>1. Len(directory) \in 1 .. Len(directory) /\ Dir = directory[Len(directory)]
    BY <1>2, DirType
  <2> QED
    BY <1>2, <2>1 DEF DirectoryInv
<1>9. \A i \in 1 .. Len(directory) : load_snapshot(files, directory[i].path) < calls
  BY <1>1, <1>2, SMTT(30) DEF InProgress
<1>10. /\ DirectoryInv' /\ Dir' = d /\ Visible' = load_snapshot(files', d.path)
       /\ CallTypes' => Possible' = Possible \cup {Visible'}
       /\ directory' \in Seq(Entry) /\ Len(directory') = Len(directory) + 1
  <2>1. Len(files') \in Nat /\ Len(files') >= Len(files) /\ calls' \in Nat /\ calls' >= calls
    BY <1>2, <1>4, NumbersType
  <2>2. d.tmp <= Len(files') /\ d.path <= Len(files') /\ d.path # d.tmp
    BY <1>2, <1>4, <1>5, <2>1 DEF NoFile
  <2>3. \E n \in 1 .. calls' : files'[d.path] = Complete(n)
    <3>1. calls \in 1 .. calls'
      BY <1>2, <1>3, <1>4
    <3> QED
      BY <1>3, <1>4, <1>5, <3>1
  <2>4. durable.snapshot <= load_snapshot(files', d.path) /\ (durable.log => d.log)
    <3>1. durable.snapshot <= load_snapshot(files, Dir.path) /\ (durable.log => Dir.log)
      BY <1>8 DEF Restorable
    <3>2. load_snapshot(files, Dir.path) \in 0 .. calls /\ durable.snapshot \in Nat
      BY <1>2, <1>8, LoadType DEF CallTypes
    <3> QED
      BY <1>2, <1>4, <1>5, <1>7, <3>1, <3>2, SMTT(30)
  <2>5. \A i \in 1 .. Len(directory) : directory[i].path # NoFile =>
              files'[directory[i].path] = files[directory[i].path] /\ directory[i].path # d.tmp
    BY <1>4, <1>5
  <2> QED
    BY <1>2, <1>4, <1>5, <2>1, <2>2, <2>3, <2>4, <2>5, EntryAdded, SMTT(30)
<1>11. InProgress(w)'
  <2>1. call'[w] = c
    BY <1>2, <1>4, SMTT(30) DEF CallTypes
  <2> QED
    BY <1>3, <1>4, <1>6, <2>1 DEF InProgress, Unrenamed
<1>12. OneInFlight' /\ CallInv' /\ call' \in [Writers -> Calls]
  BY <1>2, <1>4, <1>6, <1>11, CallStep, Zenon
<1>13. CallTypes'
  BY <1>2, <1>4, <1>8, <1>10, <1>12, SMTT(30) DEF CallTypes, Calls
<1>14. Visible' \in Nat /\ \A n \in Possible : Visible' > n
  <2>1. Visible' = calls
    BY <1>4, <1>7, <1>10
  <2>2. \A i \in 1 .. Len(directory) : load_snapshot(files, directory[i].path) \in 0 .. calls
    BY <1>2, LoadType DEF DirectoryInv
  <2>3. \A i \in 1 .. Len(directory) : Visible' > load_snapshot(files, directory[i].path)
    BY <1>2, <1>9, <2>1, <2>2
  <2>4. Possible = {load_snapshot(files, directory[i].path) : i \in 1 .. Len(directory)}
    BY <1>2, PossibleByIndex
  <2> QED
    BY <1>2, <2>1, <2>3, <2>4, SMTT(30)
<1> QED
  BY <1>10, <1>12, <1>13, <1>14 DEF SnapshotInv

LEMMA SingleEntry ==
    ASSUME NEW d \in Entry, directory' = <<d>>
    PROVE  /\ directory' \in Seq(Entry) /\ Len(directory') = 1 /\ directory'[1] = d /\ Dir' = d
           /\ Visible' = load_snapshot(files', d.path) /\ Possible' = {Visible'}
<1>1. directory' \in Seq(Entry) /\ Len(directory') = 1 /\ directory'[1] = d
  BY Singleton
<1>2. Dir' = d
  BY <1>1 DEF Dir
<1>3. DOMAIN directory' = {1}
  BY <1>1
<1> QED
  BY <1>1, <1>2, <1>3 DEF Visible, Possible, Range

LEMMA SyncDirStep ==
    ASSUME SnapshotInv, NEW w \in Writers, SyncDir(w)
    PROVE  SnapshotInv' /\ Visible' = Visible /\ Possible' = {Visible}
<1>1. CallTypes /\ DirectoryInv /\ OneInFlight /\ call[w] # Idle
  BY DEF SnapshotInv, SyncDir, Idle
<1>2. /\ Len(directory) \in 1 .. Len(directory) /\ Dir = directory[Len(directory)]
      /\ Dir \in Entry
  BY <1>1, DirType
<1>3. Restorable(Dir)
  BY <1>1, <1>2 DEF DirectoryInv
<1>4. /\ directory' = <<Dir>> /\ durable' = [snapshot |-> Visible, log |-> Dir.log]
      /\ call' = [call EXCEPT ![w] = Idle] /\ UNCHANGED <<files, calls>>
  BY DEF SyncDir, Return, Visible
<1>5. /\ directory' \in Seq(Entry) /\ Len(directory') = 1 /\ directory'[1] = Dir /\ Dir' = Dir
      /\ Visible' = Visible /\ Possible' = {Visible'}
  BY <1>2, <1>4, SingleEntry DEF Visible
<1>6. Visible \in 0 .. calls /\ calls \in Nat
  BY <1>1, <1>3, LoadType, NumbersType, SMTT(30) DEF Visible
<1>7. durable' \in [snapshot : Nat, log : BOOLEAN] /\ durable'.snapshot = Visible /\ durable'.log = Dir.log
  BY <1>2, <1>4, <1>6, SMTT(30) DEF Entry
<1>8. Restorable(directory[1])'
  <2>1. Visible <= load_snapshot(files, Dir.path)
    BY <1>6 DEF Visible
  <2> QED
    BY <1>3, <1>4, <1>5, <1>7, <2>1 DEF Restorable
<1>9. DirectoryInv'
  BY <1>5, <1>8, SMTT(30) DEF DirectoryInv
<1>10. OneInFlight' /\ CallInv' /\ call' \in [Writers -> Calls]
  <2>1. Idle \in Calls
    BY DEF Idle, Calls, NoFile
  <2> QED
    BY <1>1, <1>4, <2>1, CallStep, OthersIdle, Zenon
<1>11. CallTypes'
  BY <1>1, <1>4, <1>5, <1>7, <1>10 DEF CallTypes, Calls
<1> QED
  BY <1>5, <1>9, <1>10, <1>11 DEF SnapshotInv

LEMMA SurvivorType ==
    ASSUME NEW f \in File
    PROVE  /\ Survivors(f) \subseteq Seq(Unit)
           /\ f.dirty = FALSE => Survivors(f) = {f.units}
<1>1. f.units \in Seq(Unit) /\ f.synced \in Seq(Unit)
  BY DEF File
<1>2. \A n \in 0 .. Len(f.units) : SubSeq(f.units, 1, n) \in Seq(Unit)
  BY <1>1
<1> QED
  BY <1>1, <1>2 DEF Survivors

LEMMA CrashStep ==
    ASSUME SnapshotInv, Crash
    PROVE  SnapshotInv' /\ Visible' \in Possible /\ Possible' = {Visible'}
<1>1. /\ CallTypes /\ DirectoryInv /\ calls \in Nat /\ files \in Seq(File) /\ Len(files) \in Nat
      /\ directory \in Seq(Entry)
  BY NumbersType DEF SnapshotInv, CallTypes
<1>2. PICK d \in Range(directory) : directory' = <<d>>
  BY DEF Crash
<1>3. PICK i \in 1 .. Len(directory) : d = directory[i]
  BY <1>1, <1>2 DEF Range
<1>4. d \in Entry /\ Restorable(d)
  BY <1>1, <1>3, ElementOfSeq DEF DirectoryInv
<1>5. /\ call' = [w \in Writers |-> Idle] /\ UNCHANGED <<calls, durable>>
      /\ files' \in [1 .. Len(files) ->
                       [units : UNION {Survivors(f) : f \in Range(files)},
                        synced : UNION {Survivors(f) : f \in Range(files)}, dirty : {FALSE}]]
      /\ \A j \in DOMAIN files' : /\ files'[j].units \in Survivors(files[j])
                                  /\ files'[j].synced = files'[j].units
  BY Zenon DEF Crash
<1>6. ASSUME NEW j \in 1 .. Len(files)
      PROVE  /\ files'[j] \in File
             /\ \A n \in Numbers : files[j] = Complete(n) => files'[j] = Complete(n)
  <2>1. /\ files'[j] = [units |-> files'[j].units, synced |-> files'[j].units, dirty |-> FALSE]
        /\ files'[j].units \in Survivors(files[j])
    BY <1>5, Zenon
  <2>2. files[j] \in File
    BY <1>1, ElementOfSeq
  <2>3. files'[j].units \in Seq(Unit)
    BY <2>1, <2>2, SurvivorType, Zenon
  <2>4. files'[j] \in File
    <3>1. PICK u \in Seq(Unit) : u = files'[j].units
      BY <2>3
    <3>2. [units |-> u, synced |-> u, dirty |-> FALSE] \in File
      BY DEF File
    <3>3. files'[j] = [units |-> u, synced |-> u, dirty |-> FALSE]
      BY <2>1, <3>1, Zenon
    <3> QED
      BY <3>2, <3>3, Zenon
  <2>5. ASSUME NEW n \in Numbers, files[j] = Complete(n)
        PROVE  files'[j] = Complete(n)
    <3>1. files[j].dirty = FALSE /\ files[j].units = Whole(n)
      BY <2>5 DEF Complete
    <3>2. files'[j].units = Whole(n)
      BY <2>1, <2>2, <3>1, SurvivorType, Zenon
    <3> QED
      BY <2>1, <3>2, Zenon DEF Complete
  <2> QED
    BY <2>4, <2>5
<1>7. files' \in Seq(File) /\ Len(files') = Len(files)
  <2>1. DOMAIN files' = 1 .. Len(files)
    BY <1>5
  <2>2. files' \in [1 .. Len(files) -> File]
    BY <1>5, <1>6, <2>1
  <2> QED
    BY <1>1, <2>2
<1>8. d.path # NoFile => files'[d.path] = files[d.path]
  <2> SUFFICES ASSUME d.path # NoFile PROVE files'[d.path] = files[d.path]
    OBVIOUS
  <2>1. PICK n \in 1 .. calls : files[d.path] = Complete(n)
    BY <1>4 DEF Restorable
  <2>2. n \in Numbers
    BY <1>1, SnapshotAssumption DEF CallTypes, Numbers
  <2>3. d.path \in 1 .. Len(files)
    BY <1>1, <1>4 DEF Restorable, Entry, NoFile
  <2> QED
    BY <1>6, <2>1, <2>2, <2>3
<1>9. load_snapshot(files', d.path) = load_snapshot(files, d.path)
  BY <1>8, LoadKept
<1>10. /\ directory' \in Seq(Entry) /\ Len(directory') = 1 /\ directory'[1] = d /\ Dir' = d
       /\ Visible' = load_snapshot(files', d.path) /\ Possible' = {Visible'}
  BY <1>2, <1>4, SingleEntry
<1>11. Visible' \in Possible
  BY <1>2, <1>9, <1>10 DEF Possible
<1>12. Restorable(directory[1])'
  BY <1>4, <1>5, <1>7, <1>8, <1>9, <1>10 DEF Restorable
<1>13. DirectoryInv'
  BY <1>10, <1>12 DEF DirectoryInv
<1>14. Idle \in Calls
  BY DEF Idle, Calls, NoFile
<1>15. CallTypes'
  <2>1. call' \in [Writers -> Calls]
    BY <1>5, <1>14
  <2> QED
    BY <1>1, <1>5, <1>7, <1>10, <2>1 DEF CallTypes, Calls
<1>16. OneInFlight' /\ CallInv'
  BY <1>5 DEF OneInFlight, CallInv
<1> QED
  BY <1>10, <1>11, <1>13, <1>15, <1>16 DEF SnapshotInv

\* Every step of the model is a step of AtomicSnapshot, or of no consequence.
Atomically ==
    \/ UNCHANGED <<Visible, Possible>>
    \/ /\ Visible' \in Nat
       /\ \A n \in Possible : Visible' > n
       /\ Possible' = Possible \cup {Visible'}
    \/ Possible' = {Visible} /\ Visible' = Visible
    \/ Visible' \in Possible /\ Possible' = {Visible'}

LEMMA SnapshotStep ==
    ASSUME ~ Overlapping, SnapshotInv, [Next]_vars
    PROVE  SnapshotInv' /\ Atomically
<1>1. CASE UNCHANGED vars
  <2>1. UNCHANGED <<files, directory, call, calls, durable>>
    BY <1>1, SMTT(30) DEF vars
  <2>2. SnapshotInv'
    BY <2>1 DEF SnapshotInv, CallTypes, OneInFlight, CallInv, InProgress, DirectoryInv, Restorable, Dir
  <2> QED
    BY <2>1, <2>2 DEF Atomically, Visible, Possible, Dir
<1>2. CASE OpenLog
  BY <1>2, OpenLogStep DEF Atomically
<1>3. CASE Crash
  BY <1>3, CrashStep DEF Atomically
<1>4. ASSUME NEW w \in Writers, write_snapshot(w) PROVE SnapshotInv' /\ Atomically
  <2>1. CASE Open(w)
    BY <2>1, CreateStep, TruncateStep DEF Atomically
  <2>2. CASE OpenFails(w)
    BY <2>2, OpenFailsStep DEF Atomically
  <2>3. CASE Write(w)
    BY <2>3, WriteStep DEF Atomically
  <2>4. CASE WriteFails(w)
    BY <2>4, WriteFailsStep DEF Atomically
  <2>5. CASE Sync(w)
    BY <2>5, SyncStep DEF Atomically
  <2>6. CASE SyncFails(w)
    BY <2>6, ReturnStep DEF SyncFails, Idle, Atomically
  <2>7. CASE Rename(w)
    BY <2>7, RenameStep DEF Atomically
  <2>8. CASE RenameFails(w)
    BY <2>8, ReturnStep DEF RenameFails, Idle, Atomically
  <2>9. CASE SyncDir(w)
    BY <2>9, SyncDirStep DEF Atomically
  <2>10. CASE SyncDirFails(w)
    BY <2>10, ReturnStep DEF SyncDirFails, Idle, Atomically
  <2> QED
    BY <1>4, <2>1, <2>2, <2>3, <2>4, <2>5, <2>6, <2>7, <2>8, <2>9, <2>10, Zenon DEF write_snapshot
<1> QED
  BY <1>1, <1>2, <1>3, <1>4, Zenon DEF Next

LEMMA SnapshotInvImplies ==
    ASSUME SnapshotInv
    PROVE  PathNeverCorrupt /\ ReturnedSnapshotKept /\ LogEntryKept
<1>1. CallTypes /\ DirectoryInv
  BY DEF SnapshotInv
<1>2. Len(directory) \in 1 .. Len(directory) /\ Dir = directory[Len(directory)]
  BY <1>1, DirType
<1>3. Restorable(Dir)
  BY <1>1, <1>2 DEF DirectoryInv
<1>4. load_snapshot(files, Dir.path) \in 0 .. calls /\ durable.snapshot \in Nat /\ calls \in Nat
  BY <1>1, <1>3, LoadType, NumbersType DEF CallTypes
<1> QED
  BY <1>3, <1>4 DEF Restorable, PathNeverCorrupt, ReturnedSnapshotKept, LogEntryKept, Corrupt

\* A reader of path finds a whole snapshot or none, whatever fails and
\* whenever the machine crashes: write_snapshot never writes to a file that
\* path refers to, or may refer to after a crash (snapshot.cpp).
THEOREM PathAlwaysWhole ==
    ASSUME ~ Overlapping
    PROVE  Spec => []PathNeverCorrupt
<1>1. Init => SnapshotInv
  BY InitSnapshot
<1>2. SnapshotInv /\ [Next]_vars => SnapshotInv'
  BY SnapshotStep
<1>3. SnapshotInv => PathNeverCorrupt
  BY SnapshotInvImplies
<1> QED
  BY <1>1, <1>2, <1>3, PTL DEF Spec

\* What a returned call of write_snapshot has made durable stays: path never
\* goes back to an older snapshot.
THEOREM DurableSnapshotKept ==
    ASSUME ~ Overlapping
    PROVE  Spec => []ReturnedSnapshotKept
<1>1. Init => SnapshotInv
  BY InitSnapshot
<1>2. SnapshotInv /\ [Next]_vars => SnapshotInv'
  BY SnapshotStep
<1>3. SnapshotInv => ReturnedSnapshotKept
  BY SnapshotInvImplies
<1> QED
  BY <1>1, <1>2, <1>3, PTL DEF Spec

\* The log's directory entry is made durable by the first call that returns
\* from syncing the directory, and survives every later crash.
THEOREM LogSurvives ==
    ASSUME ~ Overlapping
    PROVE  Spec => []LogEntryKept
<1>1. Init => SnapshotInv
  BY InitSnapshot
<1>2. SnapshotInv /\ [Next]_vars => SnapshotInv'
  BY SnapshotStep
<1>3. SnapshotInv => LogEntryKept
  BY SnapshotInvImplies
<1> QED
  BY <1>1, <1>2, <1>3, PTL DEF Spec

\* The system calls of write_snapshot implement the atomic replacement that
\* CrashRecovery takes a snapshot for: each of them replaces what path shows
\* by a newer snapshot, makes it durable, or changes nothing a reader or a
\* recovery can see.
THEOREM WriteSnapshotIsAtomic ==
    ASSUME ~ Overlapping
    PROVE  Spec => ImplementsAtomicSnapshot
<1>1. Init => SnapshotInv
  BY InitSnapshot
<1>2. SnapshotInv /\ [Next]_vars => SnapshotInv'
  BY SnapshotStep
<1>3. Init => Abstract!Init
  <2> SUFFICES ASSUME Init PROVE Abstract!Init
    OBVIOUS
  <2> DEFINE d == [tmp |-> NoFile, path |-> NoFile, log |-> FALSE]
  <2>1. directory = <<d>> /\ d.path = NoFile
    BY DEF Init
  <2> HIDE DEF d
  <2>2. Len(directory) = 1 /\ directory[1] = d /\ DOMAIN directory = {1}
    BY <2>1, SMTT(30)
  <2>3. Visible = 0 /\ Possible = {0}
    BY <2>1, <2>2, Zenon DEF Visible, Possible, Dir, load_snapshot, Range
  <2> QED
    BY <2>3, Zenon DEF Abstract!Init, Visible, Possible
<1>4. SnapshotInv /\ [Next]_vars => [Abstract!Next]_(Abstract!vars)
  <2> SUFFICES ASSUME SnapshotInv, [Next]_vars PROVE [Abstract!Next]_(Abstract!vars)
    OBVIOUS
  <2>1. Atomically
    BY SnapshotStep
  <2> QED
    BY <2>1, Zenon DEF Atomically, Abstract!Next, Abstract!Replace, Abstract!MakeDurable,
        Abstract!Crash, Abstract!vars, Visible, Possible
<1> QED
  BY <1>1, <1>2, <1>3, <1>4, PTL DEF Spec, ImplementsAtomicSnapshot, Abstract!Spec

=============================================================================
