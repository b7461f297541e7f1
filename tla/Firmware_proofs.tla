-------------------------- MODULE Firmware_proofs --------------------------
(***************************************************************************)
(* The answer of UploadFile is true, and a download matches it, for any    *)
(* number of files, uploads and downloads and images of any length.        *)
(*                                                                         *)
(* What both rest on: an upload that was alone from its beginning, and     *)
(* after whose beginning none has begun, is still alone, so the file is    *)
(* what it has written; and what has been settled stays so until the next  *)
(* upload begins, which every later reader can tell by its number.         *)
(***************************************************************************)
EXTENDS Firmware, TLAPS

(* Types, as the provers need them: with the domain of every function.     *)
UploadState ==
  [at : {"idle", "write", "hash", "answered", "failed"}, name : Names \cup {Absent},
   image : Images \cup {<<>>}, done : Nat, hash : Contents, turn : Nat, alone : BOOLEAN]

DownState ==
  [at : {"idle", "missing", "found", "read", "done", "broken"}, name : Names \cup {Absent},
   open : Opened \cup {Absent}, got : Contents, sure : Contents \cup {Absent}]

Typed ==
  /\ file \in [Names -> Contents \cup {Absent}]
  /\ handle \in [Names -> Opened \cup {Absent}]
  /\ upload \in [Uploads -> UploadState]
  /\ down \in [Downloads -> DownState]
  /\ begun \in [Names -> Nat]
  /\ settled \in [Names -> Contents \cup {Absent}]

(* An upload under way has its file, and has written so much of its image. *)
UnderWay ==
  /\ \A u \in Uploads : upload[u].at \in {"write", "hash", "answered"} =>
       /\ upload[u].name \in Names /\ upload[u].image \in Images
       /\ file[upload[u].name] # Absent
       /\ begun[upload[u].name] > 0 /\ upload[u].turn <= begun[upload[u].name]
       /\ upload[u].done <= Len(upload[u].image)
       /\ upload[u].at # "write" => upload[u].done = Len(upload[u].image)
       /\ upload[u].at = "write" => upload[u].hash = <<>>
  /\ \A u \in Uploads : upload[u].at \in {"idle", "failed"} => upload[u].done = 0
  /\ \A g \in Downloads : down[g].at \in {"found", "read"} =>
       down[g].name \in Names /\ file[down[g].name] # Absent
  /\ \A g \in Downloads : down[g].at = "read" => down[g].open # Absent
  /\ \A g \in Downloads : down[g].at \in {"idle", "found"} => down[g].got = <<>>

(* The upload u is alone with its file since it began.                     *)
Sole(u) ==
  upload[u].at \in {"write", "hash"} /\ upload[u].turn = begun[upload[u].name]

Begins(s, t, n) == Len(s) = n /\ \A j \in 1 .. n : s[j] = t[j]

SoleInv ==
  \A u \in Uploads : Sole(u) =>
    /\ \A v \in Uploads \ {u} : ~Saving(v, upload[u].name)
    /\ Begins(file[upload[u].name], upload[u].image, upload[u].done)
    /\ upload[u].at = "hash" =>
         /\ Len(upload[u].hash) <= Len(upload[u].image)
         /\ Begins(upload[u].hash, upload[u].image, Len(upload[u].hash))

(* Nobody writes to the file f, and it has the content h.                  *)
Stands(f, h) == file[f] = h /\ \A u \in Uploads : ~Saving(u, f)

(* What is known of an open file o, named f.                               *)
Sure(f, o) ==
  /\ o.turn <= begun[f]
  /\ o.hash # Absent /\ o.turn = begun[f] => Stands(f, o.hash) /\ o.len = Len(o.hash)

SureInv ==
  /\ \A f \in Names : settled[f] # Absent => Stands(f, settled[f])
  /\ \A f \in Names : handle[f] # Absent => Sure(f, handle[f])
  /\ \A g \in Downloads : down[g].at = "read" =>
       /\ Sure(down[g].name, down[g].open)
       /\ down[g].open.hash # Absent /\ down[g].open.turn = begun[down[g].name] =>
            /\ Len(down[g].got) <= Len(down[g].open.hash)
            /\ Begins(down[g].got, down[g].open.hash, Len(down[g].got))

FirmwareInv ==
  Typed /\ UnderWay /\ SoleInv /\ SureInv /\ AnswerIsTrue /\ DownloadMatchesAnswer

-----------------------------------------------------------------------------
(* Sequences.                                                              *)

LEMMA SameSequence ==
  ASSUME NEW S, NEW s \in Seq(S), NEW t \in Seq(S), Begins(s, t, Len(t))
  PROVE  s = t
<1>1. Len(s) = Len(t) /\ \A j \in 1 .. Len(t) : s[j] = t[j]
  BY DEF Begins
<1>2. s = [j \in 1 .. Len(s) |-> s[j]] /\ t = [j \in 1 .. Len(t) |-> t[j]]
  OBVIOUS
<1> QED
  BY <1>1, <1>2

LEMMA AppendBegins ==
  ASSUME NEW S, NEW s \in Seq(S), NEW t \in Seq(S),
         Begins(s, t, Len(s)), Len(s) + 1 <= Len(t)
  PROVE  LET k == Len(s) + 1
         IN  /\ Append(s, t[k]) \in Seq(S)
             /\ Len(Append(s, t[k])) = k
             /\ Begins(Append(s, t[k]), t, k)
<1> DEFINE k == Len(s) + 1
<1>1. t[k] \in S /\ Len(s) \in Nat
  OBVIOUS
<1>2. /\ Append(s, t[k]) \in Seq(S) /\ Len(Append(s, t[k])) = k
      /\ \A j \in 1 .. Len(s) : Append(s, t[k])[j] = s[j]
      /\ Append(s, t[k])[k] = t[k]
  BY <1>1
<1>3. \A j \in 1 .. k : j \in 1 .. Len(s) \/ j = k
  BY <1>1
<1> QED
  BY <1>2, <1>3 DEF Begins

(* A write at an offset, behind the end or not.                            *)
LEMMA PutFacts ==
  ASSUME NEW s \in Contents, NEW k \in Nat \ {0}, NEW b \in Blocks
  PROVE  /\ Put(s, k, b) \in Contents
         /\ \A t : Begins(s, t, k - 1) /\ t[k] = b => Begins(Put(s, k, b), t, k)
<1> DEFINE n == IF k > Len(s) THEN k ELSE Len(s)
           e(j) == IF j = k THEN b ELSE IF j <= Len(s) THEN s[j] ELSE Hole
<1>1. Len(s) \in Nat /\ n \in Nat /\ \A j \in 1 .. Len(s) : s[j] \in Blocks \cup {Hole}
  BY DEF Contents
<1>2. Put(s, k, b) = [j \in 1 .. n |-> e(j)]
  BY DEF Put
<1>3. \A j \in 1 .. n : e(j) \in Blocks \cup {Hole}
  BY <1>1
<1>4. Put(s, k, b) \in [1 .. n -> Blocks \cup {Hole}]
  BY <1>2, <1>3
<1>5. Put(s, k, b) \in Contents /\ Len(Put(s, k, b)) = n
  BY <1>1, <1>4 DEF Contents
<1>6. ASSUME NEW t, Begins(s, t, k - 1), t[k] = b
      PROVE  Begins(Put(s, k, b), t, k)
  <2>1. n = k
    BY <1>1, <1>6 DEF Begins
  <2>2. \A j \in 1 .. k : j = k \/ j \in 1 .. k - 1
    OBVIOUS
  <2>3. \A j \in 1 .. k : e(j) = t[j]
    BY <1>1, <1>6, <2>2 DEF Begins
  <2> QED
    BY <1>2, <1>5, <2>1, <2>3 DEF Begins
<1> QED
  BY <1>5, <1>6

-----------------------------------------------------------------------------
LEMMA FirmwareInitInv ==
  ASSUME FirmwareAssumption, FirmwareInit
  PROVE  FirmwareInv
<1>1. <<>> \in Contents
  BY DEF Contents
<1>2. Typed
  BY <1>1 DEF FirmwareInit, Typed, UploadState, DownState, NoUpload, NoDownload
<1>3. /\ \A u \in Uploads : upload[u].at = "idle" /\ upload[u].done = 0
      /\ \A g \in Downloads : down[g].at = "idle" /\ down[g].got = <<>>
      /\ \A f \in Names : settled[f] = Absent /\ handle[f] = Absent
  BY DEF FirmwareInit, NoUpload, NoDownload
<1> QED
  BY <1>2, <1>3 DEF FirmwareInv, UnderWay, SoleInv, Sole, SureInv, AnswerIsTrue,
       DownloadMatchesAnswer

-----------------------------------------------------------------------------
(* What is sure stays so, when a file that nobody writes to is left alone  *)
(* until the next upload begins.                                           *)
LEMMA SureStays ==
  ASSUME Typed, UnderWay, SureInv, handle' = handle, down' = down,
         \A f \in Names : begun'[f] \in Nat /\ begun'[f] >= begun[f],
         \A f \in Names : begun'[f] = begun[f] /\ (\A u \in Uploads : ~Saving(u, f)) =>
            /\ file'[f] = file[f]
            /\ \A u \in Uploads : ~(upload'[u].at \in {"write", "hash"} /\ upload'[u].name = f),
         \A f \in Names : settled'[f] # Absent =>
            \/ settled'[f] = settled[f] /\ begun'[f] = begun[f]
            \/ /\ settled'[f] = file'[f]
               /\ \A u \in Uploads : ~(upload'[u].at \in {"write", "hash"} /\ upload'[u].name = f)
  PROVE  SureInv'
<1>1. \A f \in Names : settled'[f] # Absent =>
        /\ file'[f] = settled'[f]
        /\ \A u \in Uploads : ~(upload'[u].at \in {"write", "hash"} /\ upload'[u].name = f)
  BY DEF SureInv, Stands
<1>2. ASSUME NEW f \in Names, NEW o \in Opened, Sure(f, o)
      PROVE  /\ o.turn <= begun'[f]
             /\ o.turn = begun'[f] => o.turn = begun[f]
             /\ o.hash # Absent /\ o.turn = begun'[f] =>
                  /\ file'[f] = o.hash /\ o.len = Len(o.hash)
                  /\ \A u \in Uploads : ~(upload'[u].at \in {"write", "hash"} /\ upload'[u].name = f)
  <2>1. o.turn \in Nat /\ begun[f] \in Nat
    BY DEF Opened, Typed
  <2>2. o.turn <= begun'[f] /\ (o.turn = begun'[f] => begun'[f] = begun[f])
    BY <1>2, <2>1 DEF Sure
  <2> QED
    BY <1>2, <2>2 DEF Sure, Stands
<1>3. \A f \in Names : handle[f] # Absent => handle[f] \in Opened /\ Sure(f, handle[f])
  BY DEF SureInv, Typed
<1>4. \A g \in Downloads : down[g].at = "read" =>
        /\ down[g].name \in Names /\ down[g].open \in Opened
        /\ Sure(down[g].name, down[g].open)
  BY DEF SureInv, UnderWay, Typed, DownState
<1>5. (\A f \in Names : settled[f] # Absent => Stands(f, settled[f]))'
  BY <1>1 DEF Stands, Saving
<1>6. (\A f \in Names : handle[f] # Absent => Sure(f, handle[f]))'
  BY <1>2, <1>3 DEF Sure, Stands, Saving
<1>7. (\A g \in Downloads : down[g].at = "read" =>
        /\ Sure(down[g].name, down[g].open)
        /\ down[g].open.hash # Absent /\ down[g].open.turn = begun[down[g].name] =>
             /\ Len(down[g].got) <= Len(down[g].open.hash)
             /\ Begins(down[g].got, down[g].open.hash, Len(down[g].got)))'
  <2> SUFFICES ASSUME NEW g \in Downloads, down[g].at = "read"
               PROVE  (/\ Sure(down[g].name, down[g].open)
                       /\ down[g].open.hash # Absent /\ down[g].open.turn = begun[down[g].name] =>
                            /\ Len(down[g].got) <= Len(down[g].open.hash)
                            /\ Begins(down[g].got, down[g].open.hash, Len(down[g].got)))'
    OBVIOUS
  <2> DEFINE f == down[g].name  o == down[g].open
  <2>1. f \in Names /\ o \in Opened /\ Sure(f, o)
    BY <1>4
  <2>2. /\ o.turn <= begun'[f]
        /\ o.turn = begun'[f] => o.turn = begun[f]
        /\ o.hash # Absent /\ o.turn = begun'[f] =>
             /\ file'[f] = o.hash /\ o.len = Len(o.hash)
             /\ \A u \in Uploads : ~(upload'[u].at \in {"write", "hash"} /\ upload'[u].name = f)
    BY <1>2, <2>1
  <2>3. Sure(f, o)'
    BY <2>2 DEF Sure, Stands, Saving
  <2>4. o.hash # Absent /\ o.turn = begun'[f] =>
          Len(down[g].got) <= Len(o.hash) /\ Begins(down[g].got, o.hash, Len(down[g].got))
    BY <2>2 DEF SureInv
  <2> QED
    BY <2>3, <2>4 DEF Begins
<1> QED
  BY <1>5, <1>6, <1>7 DEF SureInv

(* An upload begins, and ends what was certain of its file.                *)
LEMMA CreateKeeps ==
  ASSUME FirmwareAssumption, FirmwareInv,
         NEW u \in Uploads, NEW f \in Names, NEW i \in Images, CreateFile(u, f, i)
  PROVE  FirmwareInv'
<1> USE DEF FirmwareInv
<1>0. /\ file' = [file EXCEPT ![f] = <<>>]
      /\ begun' = [begun EXCEPT ![f] = begun[f] + 1]
      /\ settled' = [settled EXCEPT ![f] = Absent]
      /\ handle' = handle /\ down' = down /\ upload[u].at = "idle"
  BY DEF CreateFile, CreateTo, Typed
<1> DEFINE turn == IF \E v \in Uploads : Saving(v, f) THEN 0 ELSE begun[f] + 1
           new == [at |-> "write", name |-> f, image |-> i, done |-> 0, hash |-> <<>>,
                   alone |-> FALSE, turn |-> turn]
<1>1. upload' = [upload EXCEPT ![u] = new]
  BY DEF CreateFile, CreateTo
<1>2. <<>> \in Contents /\ Absent # <<>> /\ i \in Seq(Blocks) /\ Len(i) \in Nat
  <2>1. <<>> \in Contents /\ Absent \notin Contents
    BY DEF Contents, FirmwareAssumption
  <2>2. i \in Seq(Blocks)
    BY DEF FirmwareAssumption
  <2> QED
    BY <2>1, <2>2
<1>3. turn \in Nat /\ turn <= begun[f] + 1 /\ begun[f] \in Nat
  BY DEF Typed
<1>n. /\ new.at = "write" /\ new.name = f /\ new.image = i /\ new.done = 0 /\ new.hash = <<>>
      /\ new.turn = turn /\ new \in UploadState
  BY <1>2, <1>3 DEF UploadState
<1> HIDE DEF new
<1>4. Typed'
  BY <1>0, <1>1, <1>2, <1>3, <1>n DEF Typed
<1>5. /\ upload'[u] = new
      /\ \A v \in Uploads \ {u} : upload'[v] = upload[v]
      /\ file'[f] = <<>> /\ \A k \in Names \ {f} : file'[k] = file[k]
      /\ begun'[f] = begun[f] + 1 /\ \A k \in Names \ {f} : begun'[k] = begun[k]
      /\ settled'[f] = Absent /\ \A k \in Names \ {f} : settled'[k] = settled[k]
  BY <1>0, <1>1 DEF Typed
<1>6. UnderWay'
  <2>1. ASSUME NEW v \in Uploads \ {u}, upload[v].at \in {"write", "hash", "answered"}
        PROVE  /\ upload[v].name \in Names /\ file'[upload[v].name] # Absent
               /\ begun'[upload[v].name] > 0 /\ upload[v].turn <= begun'[upload[v].name]
    BY <1>0, <1>2, <1>3, <1>5, <2>1 DEF UnderWay, Typed, UploadState
  <2>2. \A g \in Downloads : down[g].at \in {"found", "read"} => file'[down[g].name] # Absent
    BY <1>2, <1>5 DEF UnderWay
  <2> QED
    BY <1>0, <1>2, <1>3, <1>n, <1>5, <2>1, <2>2 DEF UnderWay
<1>7. \A k \in Names \ {f} : \A v \in Uploads : Saving(v, k)' <=> Saving(v, k)
  BY <1>0, <1>n, <1>5 DEF Saving
<1>8. \A v \in Uploads \ {u} : Sole(v)' => Sole(v) /\ upload[v].name # f
  <2> SUFFICES ASSUME NEW v \in Uploads \ {u}, Sole(v)' PROVE Sole(v) /\ upload[v].name # f
    OBVIOUS
  <2>1. upload[v].at \in {"write", "hash"} /\ upload[v].turn = begun'[upload[v].name]
    BY <1>5 DEF Sole
  <2>2. /\ upload[v].name \in Names /\ upload[v].turn \in Nat
        /\ upload[v].turn <= begun[upload[v].name]
    BY <2>1 DEF UnderWay, Typed, UploadState
  <2> QED
    BY <1>3, <1>5, <2>1, <2>2 DEF Sole
<1>9. ASSUME Sole(u)' PROVE \A v \in Uploads \ {u} : ~Saving(v, f)'
  <2>1. turn = begun[f] + 1
    BY <1>3, <1>5, <1>9, <1>n DEF Sole
  <2>2. \A v \in Uploads : ~Saving(v, f)
    BY <1>3, <2>1
  <2> QED
    BY <1>5, <2>2 DEF Saving
<1>10. SoleInv'
  <2>1. Begins(<<>>, i, 0)
    BY DEF Begins
  <2>2. ASSUME NEW v \in Uploads \ {u}, Sole(v)'
        PROVE  /\ \A w \in Uploads \ {v} : ~Saving(w, upload[v].name)'
               /\ file'[upload[v].name] = file[upload[v].name]
    <3>1. Sole(v) /\ upload[v].name # f /\ upload[v].name \in Names
      BY <1>8, <2>2 DEF Sole, UnderWay
    <3> QED
      BY <1>5, <1>7, <3>1 DEF SoleInv
  <2> QED
    BY <1>5, <1>8, <1>9, <1>n, <2>1, <2>2 DEF SoleInv
<1>11. SureInv'
  <2>1. \A k \in Names : begun'[k] \in Nat /\ begun'[k] >= begun[k]
    BY <1>3, <1>5 DEF Typed
  <2>2. \A k \in Names : begun'[k] = begun[k] => k # f
    BY <1>3, <1>5
  <2>3. \A k \in Names \ {f} : \A v \in Uploads : ~Saving(v, k) =>
          ~(upload'[v].at \in {"write", "hash"} /\ upload'[v].name = k)
    BY <1>5, <1>n DEF Saving
  <2> QED
    BY <1>0, <1>5, <2>1, <2>2, <2>3, SureStays
<1>12. AnswerIsTrue' /\ DownloadMatchesAnswer'
  BY <1>0, <1>5, <1>n DEF AnswerIsTrue, DownloadMatchesAnswer
<1> QED
  BY <1>4, <1>6, <1>10, <1>11, <1>12

LEMMA WriteKeeps ==
  ASSUME FirmwareAssumption, FirmwareInv, NEW u \in Uploads, WriteBlock(u)
  PROVE  FirmwareInv'
<1> USE DEF FirmwareInv
<1> DEFINE f == upload[u].name  i == upload[u].image  k == upload[u].done + 1
           new == Put(file[f], k, i[k])
<1>0. /\ file' = [file EXCEPT ![f] = new]
      /\ upload' = [upload EXCEPT ![u].done = k]
      /\ UNCHANGED <<handle, down, begun, settled>>
      /\ upload[u].at = "write" /\ upload[u].done < Len(i)
  BY DEF WriteBlock, Typed, UploadState
<1>1. /\ f \in Names /\ i \in Seq(Blocks) /\ file[f] \in Contents
      /\ upload[u].done \in Nat /\ k \in Nat \ {0} /\ i[k] \in Blocks /\ k <= Len(i)
  <2>1. f \in Names /\ i \in Images /\ file[f] # Absent /\ upload[u].done \in Nat
    BY <1>0 DEF UnderWay, Typed, UploadState
  <2>2. i \in Seq(Blocks) /\ file[f] \in Contents
    BY <2>1 DEF FirmwareAssumption, Typed
  <2> QED
    BY <1>0, <2>1, <2>2
<1>2. /\ new \in Contents /\ new # Absent
      /\ Begins(file[f], i, upload[u].done) => Begins(new, i, k)
  <2>1. new \in Contents /\ (Begins(file[f], i, k - 1) => Begins(new, i, k))
    BY <1>1, PutFacts
  <2> QED
    BY <1>1, <2>1 DEF Contents, FirmwareAssumption
<1> HIDE DEF new
<1>3. /\ upload'[u].at = "write" /\ upload'[u].name = f /\ upload'[u].image = i
      /\ upload'[u].done = k /\ upload'[u].turn = upload[u].turn
      /\ upload'[u].hash = upload[u].hash
      /\ \A v \in Uploads \ {u} : upload'[v] = upload[v]
      /\ file'[f] = new /\ \A g \in Names \ {f} : file'[g] = file[g]
  BY <1>0, <1>1 DEF Typed, UploadState
<1>4. Typed'
  BY <1>0, <1>1, <1>2 DEF Typed, UploadState
<1>5. UnderWay'
  BY <1>0, <1>1, <1>2, <1>3 DEF UnderWay
<1>6. \A v \in Uploads : \A g \in Names : Saving(v, g)' <=> Saving(v, g)
  BY <1>0, <1>3 DEF Saving
<1>7. \A v \in Uploads : Sole(v)' => Sole(v)
  BY <1>0, <1>3 DEF Sole
<1>8. SoleInv'
  <2>1. Sole(u)' => Begins(new, i, k)
    BY <1>2, <1>7 DEF SoleInv
  <2>2. ASSUME NEW v \in Uploads \ {u}, Sole(v)'
        PROVE  upload[v].name \in Names /\ upload[v].name # f
    BY <1>0, <1>7, <2>2 DEF SoleInv, Saving, Sole, UnderWay
  <2>3. ASSUME NEW v \in Uploads, Sole(v)', NEW w \in Uploads \ {v}
        PROVE  ~Saving(w, upload[v].name)'
    BY <1>0, <1>3, <1>7, <2>3 DEF SoleInv, Saving
  <2> QED
    BY <1>0, <1>3, <1>7, <2>1, <2>2, <2>3 DEF SoleInv
<1>9. SureInv'
  <2>1. ~ \A v \in Uploads : ~Saving(v, f)
    BY <1>0 DEF Saving
  <2>2. \A g \in Names : \A v \in Uploads : ~Saving(v, g) =>
          ~(upload'[v].at \in {"write", "hash"} /\ upload'[v].name = g)
    BY <1>6 DEF Saving
  <2>3. \A g \in Names : begun'[g] \in Nat /\ begun'[g] >= begun[g]
    BY <1>0 DEF Typed
  <2> QED
    BY <1>0, <1>3, <2>1, <2>2, <2>3, SureStays
<1>10. AnswerIsTrue' /\ DownloadMatchesAnswer'
  BY <1>0, <1>3 DEF AnswerIsTrue, DownloadMatchesAnswer
<1> QED
  BY <1>4, <1>5, <1>8, <1>9, <1>10

(* The file of a sole upload that has saved all is its image.              *)
LEMMA SoleFile ==
  ASSUME FirmwareAssumption, FirmwareInv, NEW u \in Uploads, Sole(u), upload[u].at = "hash"
  PROVE  /\ file[upload[u].name] = upload[u].image
         /\ upload[u].image \in Contents /\ upload[u].hash \in Contents
<1> DEFINE f == upload[u].name  i == upload[u].image
<1>1. f \in Names /\ i \in Images /\ file[f] # Absent /\ upload[u].done = Len(i)
  BY DEF FirmwareInv, UnderWay
<1>2. file[f] \in Contents /\ upload[u].hash \in Contents
  BY <1>1 DEF FirmwareInv, Typed, UploadState
<1>3. i \in Seq(Blocks)
  BY <1>1 DEF FirmwareAssumption
<1>4. i \in Contents
  BY <1>3 DEF Contents
<1>5. Begins(file[f], i, Len(i))
  BY <1>1 DEF FirmwareInv, SoleInv
<1> QED
  BY <1>2, <1>4, <1>5, SameSequence DEF Contents

(* The steps of an upload that change nothing but where it stands.         *)
LEMMA ProgressKeeps ==
  ASSUME FirmwareAssumption, FirmwareInv, NEW u \in Uploads,
         SaveDone(u) \/ UploadFails(u) \/ HashBlock(u)
  PROVE  FirmwareInv'
<1> USE DEF FirmwareInv
<1>0. /\ UNCHANGED <<file, handle, down, begun, settled>>
      /\ upload[u].at \in {"write", "hash"}
  BY DEF SaveDone, UploadFails, HashBlock
<1>1. /\ upload' \in [Uploads -> UploadState]
      /\ \A v \in Uploads \ {u} : upload'[v] = upload[v]
  <2>1. CASE SaveDone(u)
    BY <2>1 DEF SaveDone, Typed, UploadState
  <2>2. CASE UploadFails(u)
    <3>1. <<>> \in Contents
      BY DEF Contents
    <3>2. [NoUpload EXCEPT !.at = "failed"] \in UploadState
      BY <3>1 DEF NoUpload, UploadState
    <3> QED
      BY <2>2, <3>2 DEF UploadFails, Typed
  <2>3. CASE HashBlock(u)
    <3> DEFINE content == file[upload[u].name]  k == Len(upload[u].hash) + 1
    <3>1. upload' = [upload EXCEPT ![u].hash = Append(upload[u].hash, content[k])] /\ k <= Len(content)
      BY <2>3 DEF HashBlock, Typed, UploadState
    <3>2. upload[u].hash \in Contents /\ content \in Contents
      BY <2>3 DEF HashBlock, UnderWay, Typed, UploadState
    <3>3. content[k] \in Blocks \cup {Hole}
      BY <3>1, <3>2 DEF Contents
    <3>4. Append(upload[u].hash, content[k]) \in Contents
      BY <3>2, <3>3 DEF Contents
    <3> QED
      BY <3>1, <3>4 DEF Typed, UploadState
  <2> QED
    BY <2>1, <2>2, <2>3
<1>2. \/ /\ upload'[u].at = "failed" /\ upload'[u].done = 0
      \/ /\ upload'[u].at = "hash" /\ upload'[u].name = upload[u].name
         /\ upload'[u].image = upload[u].image /\ upload'[u].turn = upload[u].turn
         /\ upload'[u].done = upload[u].done /\ upload[u].done = Len(upload[u].image)
         /\ \/ upload[u].at = "write" /\ upload'[u].hash = <<>>
            \/ /\ upload[u].at = "hash"
               /\ Len(upload[u].hash) + 1 <= Len(file[upload[u].name])
               /\ upload'[u].hash = Append(upload[u].hash,
                                      file[upload[u].name][Len(upload[u].hash) + 1])
  <2>1. CASE SaveDone(u)
    BY <2>1 DEF SaveDone, UnderWay, Typed, UploadState
  <2>2. CASE UploadFails(u)
    BY <2>2 DEF UploadFails, NoUpload, Typed
  <2>3. CASE HashBlock(u)
    BY <2>3 DEF HashBlock, UnderWay, Typed, UploadState
  <2> QED
    BY <2>1, <2>2, <2>3
<1>3. Typed'
  BY <1>0, <1>1 DEF Typed
<1>4. UnderWay'
  <2>1. upload'[u].at \in {"failed", "hash"}
    BY <1>2
  <2>2. upload'[u].at = "hash" =>
          /\ upload'[u].name \in Names /\ upload'[u].image \in Images
          /\ file'[upload'[u].name] # Absent /\ begun'[upload'[u].name] > 0
          /\ upload'[u].turn <= begun'[upload'[u].name]
          /\ upload'[u].done <= Len(upload'[u].image)
          /\ upload'[u].done = Len(upload'[u].image)
    BY <1>0, <1>2 DEF UnderWay
  <2> QED
    BY <1>0, <1>1, <1>2, <2>1, <2>2 DEF UnderWay
<1>5. \A v \in Uploads : \A g : Saving(v, g)' => Saving(v, g)
  BY <1>0, <1>1, <1>2 DEF Saving
<1>6. \A v \in Uploads : Sole(v)' => Sole(v) /\ upload'[v].name = upload[v].name
  BY <1>0, <1>1, <1>2 DEF Sole
<1>7. ASSUME Sole(u)'
      PROVE  /\ Len(upload'[u].hash) <= Len(upload'[u].image)
             /\ Begins(upload'[u].hash, upload'[u].image, Len(upload'[u].hash))
             /\ Begins(file[upload[u].name], upload'[u].image, upload'[u].done)
  <2>1. Sole(u) /\ upload'[u].at = "hash"
    BY <1>2, <1>6, <1>7 DEF Sole
  <2>2. CASE upload[u].at = "write"
    <3>1. upload'[u].hash = <<>> /\ Len(<<>>) = 0 /\ upload'[u].image = upload[u].image
      BY <1>2, <2>1, <2>2
    <3>2. upload[u].done \in Nat
      BY DEF Typed, UploadState
    <3> QED
      BY <1>2, <2>1, <3>1, <3>2 DEF Begins, SoleInv
  <2>3. CASE upload[u].at = "hash"
    <3>1. /\ file[upload[u].name] = upload[u].image
          /\ upload[u].image \in Contents /\ upload[u].hash \in Contents
      BY <2>1, <2>3, SoleFile
    <3>2. Begins(upload[u].hash, upload[u].image, Len(upload[u].hash))
      BY <2>1, <2>3 DEF SoleInv
    <3>3. /\ Len(upload[u].hash) + 1 <= Len(upload[u].image)
          /\ upload'[u].hash = Append(upload[u].hash, upload[u].image[Len(upload[u].hash) + 1])
      BY <1>2, <2>1, <2>3, <3>1
    <3>4. /\ Len(upload'[u].hash) = Len(upload[u].hash) + 1
          /\ Begins(upload'[u].hash, upload[u].image, Len(upload[u].hash) + 1)
      BY <3>1, <3>2, <3>3, AppendBegins DEF Contents
    <3> QED
      BY <1>2, <2>1, <3>3, <3>4 DEF SoleInv
  <2> QED
    BY <1>0, <2>2, <2>3
<1>8. SoleInv'
  <2>1. ASSUME NEW v \in Uploads, Sole(v)', NEW w \in Uploads \ {v}
        PROVE  ~Saving(w, upload[v].name)'
    <3>1. ~Saving(w, upload[v].name)
      BY <1>6, <2>1 DEF SoleInv
    <3>2. upload'[v].name = upload[v].name
      BY <1>6, <2>1
    <3> QED
      BY <1>5, <3>1, <3>2 DEF Saving
  <2> QED
    BY <1>0, <1>1, <1>6, <1>7, <2>1 DEF SoleInv
<1>9. SureInv'
  <2>1. \A g \in Names : \A v \in Uploads : ~Saving(v, g) =>
          ~(upload'[v].at \in {"write", "hash"} /\ upload'[v].name = g)
    BY <1>5 DEF Saving
  <2>2. \A g \in Names : begun'[g] \in Nat /\ begun'[g] >= begun[g]
    BY <1>0 DEF Typed
  <2> QED
    BY <1>0, <2>1, <2>2, SureStays
<1>10. AnswerIsTrue' /\ DownloadMatchesAnswer'
  BY <1>0, <1>1, <1>2 DEF AnswerIsTrue, DownloadMatchesAnswer
<1> QED
  BY <1>3, <1>4, <1>8, <1>9, <1>10

(* An answer: of a sole upload it is the hash of its image.                *)
LEMMA AnswerKeeps ==
  ASSUME FirmwareAssumption, FirmwareInv, NEW u \in Uploads, AnswerUpload(u)
  PROVE  FirmwareInv'
<1> USE DEF FirmwareInv
<1> DEFINE f == upload[u].name  alone == upload[u].turn = begun[f]
           new == [upload[u] EXCEPT !.at = "answered", !.hash = upload[u].hash, !.alone = alone]
<1>0. /\ UNCHANGED <<file, handle, down, begun>>
      /\ upload[u].at = "hash" /\ Len(upload[u].hash) >= Len(file[f])
      /\ upload' = [upload EXCEPT ![u] = new]
      /\ settled' = [settled EXCEPT ![f] = IF alone THEN upload[u].hash ELSE settled[f]]
  BY DEF AnswerUpload, AnswerWith, Typed, UploadState
<1>1. f \in Names /\ upload[u].hash \in Contents /\ alone \in BOOLEAN /\ upload[u] \in UploadState
  BY <1>0 DEF UnderWay, Typed, UploadState
<1>n. /\ new \in UploadState /\ new.at = "answered" /\ new.name = f
      /\ new.image = upload[u].image /\ new.done = upload[u].done
      /\ new.turn = upload[u].turn /\ new.hash = upload[u].hash /\ new.alone = alone
  <2> HIDE DEF alone
  <2> QED
    BY <1>1 DEF UploadState
<1>a. alone => upload[u].turn = begun[f]
  OBVIOUS
<1> HIDE DEF new, alone
<1>2. /\ upload'[u] = new
      /\ \A v \in Uploads \ {u} : upload'[v] = upload[v]
      /\ settled'[f] = IF alone THEN upload[u].hash ELSE settled[f]
      /\ \A g \in Names \ {f} : settled'[g] = settled[g]
  BY <1>0, <1>1 DEF Typed
<1>3. Typed'
  <2>1. upload' \in [Uploads -> UploadState]
    BY <1>0, <1>n DEF Typed
  <2>2. settled' \in [Names -> Contents \cup {Absent}]
    BY <1>0, <1>1 DEF Typed
  <2> QED
    BY <1>0, <2>1, <2>2 DEF Typed
<1>4. UnderWay'
  BY <1>0, <1>2, <1>n DEF UnderWay
<1>5. \A v \in Uploads : \A g : Saving(v, g)' => Saving(v, g) /\ v # u
  BY <1>2, <1>n DEF Saving
<1>6. \A v \in Uploads : Sole(v)' => Sole(v) /\ v # u
  BY <1>0, <1>2, <1>n DEF Sole
<1>7. SoleInv'
  <2>1. ASSUME NEW v \in Uploads, Sole(v)', NEW w \in Uploads \ {v}
        PROVE  ~Saving(w, upload[v].name)'
    <3>1. ~Saving(w, upload[v].name) /\ upload'[v].name = upload[v].name
      BY <1>2, <1>6, <1>n, <2>1 DEF SoleInv
    <3> QED
      BY <1>5, <3>1 DEF Saving
  <2> QED
    BY <1>0, <1>2, <1>n, <1>6, <2>1 DEF SoleInv
<1>8. ASSUME alone
      PROVE  /\ upload[u].hash = upload[u].image /\ file[f] = upload[u].hash
             /\ \A v \in Uploads \ {u} : ~Saving(v, f)
  <2>1. Sole(u)
    BY <1>0, <1>8, <1>a DEF Sole
  <2>2. file[f] = upload[u].image /\ upload[u].image \in Contents
    BY <1>0, <2>1, SoleFile
  <2>3. /\ Len(upload[u].hash) <= Len(upload[u].image)
        /\ Begins(upload[u].hash, upload[u].image, Len(upload[u].hash))
        /\ \A v \in Uploads \ {u} : ~Saving(v, f)
    BY <1>0, <2>1 DEF SoleInv
  <2>4. Len(upload[u].hash) = Len(upload[u].image)
    BY <1>0, <1>1, <2>2, <2>3 DEF Contents
  <2>5. upload[u].hash = upload[u].image
    BY <1>1, <2>2, <2>3, <2>4, SameSequence DEF Contents
  <2> QED
    BY <2>2, <2>3, <2>5
<1>9. SureInv'
  <2>1. \A g \in Names : \A v \in Uploads : ~Saving(v, g) =>
          ~(upload'[v].at \in {"write", "hash"} /\ upload'[v].name = g)
    BY <1>5 DEF Saving
  <2>2. \A g \in Names : begun'[g] \in Nat /\ begun'[g] >= begun[g]
    BY <1>0 DEF Typed
  <2>3. alone => /\ settled'[f] = file'[f]
                 /\ \A v \in Uploads :
                      ~(upload'[v].at \in {"write", "hash"} /\ upload'[v].name = f)
    BY <1>0, <1>2, <1>n, <1>8 DEF Saving
  <2>4. \A g \in Names : (g = f /\ alone) \/ (settled'[g] = settled[g] /\ begun'[g] = begun[g])
    BY <1>0, <1>2, <1>n
  <2>5. \A g \in Names : settled'[g] # Absent =>
          \/ settled'[g] = settled[g] /\ begun'[g] = begun[g]
          \/ /\ settled'[g] = file'[g]
             /\ \A v \in Uploads : ~(upload'[v].at \in {"write", "hash"} /\ upload'[v].name = g)
    BY <2>3, <2>4
  <2>6. handle' = handle /\ down' = down /\ file' = file
    BY <1>0
  <2> HIDE DEF f
  <2> QED
    BY <2>1, <2>2, <2>5, <2>6, SureStays
<1>10. AnswerIsTrue' /\ DownloadMatchesAnswer'
  BY <1>0, <1>2, <1>n, <1>8 DEF AnswerIsTrue, DownloadMatchesAnswer
<1> QED
  BY <1>3, <1>4, <1>7, <1>9, <1>10

-----------------------------------------------------------------------------
(* The steps of downloads leave the files and the uploads alone.           *)
LEMMA DownloadKeeps ==
  ASSUME FirmwareInv, UNCHANGED <<file, upload, begun, settled>>,
         Typed', UnderWay', DownloadMatchesAnswer',
         \A f \in Names : handle'[f] # Absent => Sure(f, handle'[f]),
         \A g \in Downloads : down'[g].at = "read" =>
           /\ Sure(down'[g].name, down'[g].open)
           /\ down'[g].open.hash # Absent /\ down'[g].open.turn = begun[down'[g].name] =>
                /\ Len(down'[g].got) <= Len(down'[g].open.hash)
                /\ Begins(down'[g].got, down'[g].open.hash, Len(down'[g].got))
  PROVE  FirmwareInv'
<1>1. SoleInv'
  BY DEF FirmwareInv, SoleInv, Sole, Saving, Begins
<1>2. AnswerIsTrue'
  BY DEF FirmwareInv, AnswerIsTrue
<1>3. SureInv'
  BY DEF FirmwareInv, SureInv, Sure, Stands, Saving, Begins
<1> QED
  BY <1>1, <1>2, <1>3 DEF FirmwareInv

LEMMA OpenKeeps ==
  ASSUME FirmwareAssumption, FirmwareInv, NEW g \in Downloads, OpenFile(g)
  PROVE  FirmwareInv'
<1> USE DEF FirmwareInv
<1> DEFINE f == down[g].name
           open == IF handle[f] # Absent THEN handle[f]
                   ELSE [len |-> Len(file[f]), hash |-> settled[f], turn |-> begun[f]]
           new == [down[g] EXCEPT !.at = "read", !.open = open]
<1>0. /\ UNCHANGED <<file, upload, begun, settled>>
      /\ handle' = [handle EXCEPT ![f] = open]
      /\ down' = [down EXCEPT ![g] = new]
      /\ down[g].at = "found" /\ f \in Names /\ file[f] # Absent
      /\ down[g].got = <<>> /\ down[g] \in DownState
  BY DEF OpenFile, UnderWay, Typed
<1>1. file[f] \in Contents /\ settled[f] \in Contents \cup {Absent} /\ begun[f] \in Nat
  BY <1>0 DEF Typed
<1>2. open \in Opened /\ open # Absent /\ Sure(f, open)
  <2>1. CASE handle[f] # Absent
    BY <1>0, <2>1 DEF Typed, SureInv
  <2>2. CASE handle[f] = Absent
    <3> DEFINE fresh == [len |-> Len(file[f]), hash |-> settled[f], turn |-> begun[f]]
    <3>1. fresh \in Opened /\ Len(file[f]) \in Nat
      BY <1>1 DEF Opened, Contents
    <3>2. settled[f] # Absent => Stands(f, settled[f]) /\ Len(file[f]) = Len(settled[f])
      BY <1>0 DEF SureInv, Stands
    <3>3. Sure(f, fresh)
      BY <1>1, <3>2 DEF Sure
    <3>4. open = fresh
      BY <2>2
    <3>5. fresh # Absent
      BY <3>1 DEF FirmwareAssumption
    <3> QED
      BY <3>1, <3>3, <3>4, <3>5
  <2> QED
    BY <2>1, <2>2
<1>n. /\ new \in DownState /\ new.at = "read" /\ new.name = f /\ new.open = open
      /\ new.got = <<>>
  BY <1>0, <1>2 DEF DownState
<1> HIDE DEF new, open
<1>3. /\ down'[g] = new /\ \A k \in Downloads \ {g} : down'[k] = down[k]
      /\ handle'[f] = open /\ \A k \in Names \ {f} : handle'[k] = handle[k]
  BY <1>0 DEF Typed
<1>4. Typed'
  BY <1>0, <1>2, <1>n DEF Typed
<1>5. UnderWay'
  BY <1>0, <1>2, <1>3, <1>n DEF UnderWay
<1>6. DownloadMatchesAnswer'
  BY <1>3, <1>n DEF DownloadMatchesAnswer
<1>7. \A k \in Names : handle'[k] # Absent => Sure(k, handle'[k])
  BY <1>2, <1>3 DEF SureInv
<1>8. open.hash # Absent => open.hash \in Contents
  BY <1>2 DEF Opened
<1>9. Len(<<>>) = 0 /\ \A h \in Contents : Len(<<>>) <= Len(h) /\ Begins(<<>>, h, Len(<<>>))
  BY DEF Contents, Begins
<1>10. ASSUME NEW k \in Downloads, down'[k].at = "read"
      PROVE  /\ Sure(down'[k].name, down'[k].open)
             /\ down'[k].open.hash # Absent /\ down'[k].open.turn = begun[down'[k].name] =>
                  /\ Len(down'[k].got) <= Len(down'[k].open.hash)
                  /\ Begins(down'[k].got, down'[k].open.hash, Len(down'[k].got))
  <2>1. CASE k = g
    BY <1>2, <1>3, <1>8, <1>9, <1>n, <2>1
  <2>2. CASE k # g
    BY <1>3, <1>10, <2>2 DEF SureInv
  <2> QED
    BY <2>1, <2>2
<1> QED
  BY <1>0, <1>4, <1>5, <1>6, <1>7, <1>10, DownloadKeeps

(* A block of a file that stands is the next block of what was answered.   *)
LEMMA ReadKeeps ==
  ASSUME FirmwareAssumption, FirmwareInv, NEW g \in Downloads, ReadBlock(g)
  PROVE  FirmwareInv'
<1> USE DEF FirmwareInv
<1> DEFINE f == down[g].name  content == file[f]  k == Len(down[g].got) + 1
           got == Append(down[g].got, content[k])
           new == [down[g] EXCEPT !.got = got]
<1>0. /\ UNCHANGED <<file, handle, upload, begun, settled>>
      /\ down' = [down EXCEPT ![g] = new]
      /\ down[g].at = "read" /\ f \in Names /\ file[f] # Absent
      /\ k <= down[g].open.len /\ k <= Len(content)
      /\ down[g] \in DownState
  BY DEF ReadBlock, UnderWay, Typed
<1>1. content \in Contents /\ down[g].got \in Contents
  BY <1>0 DEF Typed, DownState
<1>2. got \in Contents /\ Len(got) = k
  <2>1. content[k] \in Blocks \cup {Hole}
    BY <1>0, <1>1 DEF Contents
  <2> QED
    BY <1>1, <2>1 DEF Contents
<1>3. ASSUME down[g].open.hash # Absent, down[g].open.turn = begun[f]
      PROVE  Len(got) <= Len(down[g].open.hash) /\ Begins(got, down[g].open.hash, Len(got))
  <2>1. content = down[g].open.hash /\ Begins(down[g].got, content, Len(down[g].got))
    BY <1>0, <1>3 DEF SureInv, Sure, Stands
  <2>2. Begins(got, content, k)
    BY <1>0, <1>1, <2>1, AppendBegins DEF Contents
  <2> QED
    BY <1>0, <1>2, <2>1, <2>2
<1>n. /\ new \in DownState /\ new.at = "read" /\ new.name = f /\ new.open = down[g].open
      /\ new.got = got
  BY <1>0, <1>2 DEF DownState
<1> HIDE DEF new, got
<1>4. down'[g] = new /\ \A j \in Downloads \ {g} : down'[j] = down[j]
  BY <1>0 DEF Typed
<1>5. Typed'
  BY <1>0, <1>n DEF Typed
<1>6. UnderWay'
  BY <1>0, <1>4, <1>n DEF UnderWay
<1>7. DownloadMatchesAnswer'
  BY <1>4, <1>n DEF DownloadMatchesAnswer
<1>8. \A j \in Names : handle'[j] # Absent => Sure(j, handle'[j])
  BY <1>0 DEF SureInv
<1>9. ASSUME NEW j \in Downloads, down'[j].at = "read"
      PROVE  /\ Sure(down'[j].name, down'[j].open)
             /\ down'[j].open.hash # Absent /\ down'[j].open.turn = begun[down'[j].name] =>
                  /\ Len(down'[j].got) <= Len(down'[j].open.hash)
                  /\ Begins(down'[j].got, down'[j].open.hash, Len(down'[j].got))
  <2>1. CASE j = g
    BY <1>0, <1>3, <1>4, <1>n, <2>1 DEF SureInv
  <2>2. CASE j # g
    BY <1>4, <1>9, <2>2 DEF SureInv
  <2> QED
    BY <2>1, <2>2
<1> QED
  BY <1>0, <1>5, <1>6, <1>7, <1>8, <1>9, DownloadKeeps

(* The steps after which no download reads that did not read before.       *)
LEMMA OtherDownloadsKeep ==
  ASSUME FirmwareAssumption, FirmwareInv, NEW g \in Downloads,
         (\E f \in Names : StatFile(g, f)) \/ ReadDone(g) \/ ReadBreaks(g)
  PROVE  FirmwareInv'
<1> USE DEF FirmwareInv
<1>0. UNCHANGED <<file, handle, upload, begun, settled>>
  BY DEF StatFile, ReadDone, ReadBreaks
<1> DEFINE Moved ==
      /\ down' \in [Downloads -> DownState]
      /\ \A k \in Downloads \ {g} : down'[k] = down[k]
      /\ \/ down'[g].at \in {"missing", "broken"}
         \/ /\ down'[g].at = "found" /\ down'[g].got = <<>>
            /\ down'[g].name \in Names /\ file[down'[g].name] # Absent
         \/ /\ down'[g].at = "done" /\ down[g].at = "read"
            /\ down'[g].got = down[g].got /\ Len(down[g].got) = down[g].open.len
            /\ down'[g].sure = IF down[g].open.turn = begun[down[g].name]
                               THEN down[g].open.hash ELSE Absent
<1>2. Moved
  <2>1. ASSUME NEW f \in Names, StatFile(g, f)
        PROVE  Moved
    <3> DEFINE at == IF file[f] = Absent THEN "missing" ELSE "found"
               new == [down[g] EXCEPT !.at = at, !.name = f]
    <3>1. down' = [down EXCEPT ![g] = new] /\ down[g].got = <<>> /\ down[g] \in DownState
      BY <2>1 DEF StatFile, UnderWay, Typed
    <3>2. /\ new \in DownState /\ new.at = at /\ new.name = f /\ new.got = <<>>
          /\ at \in {"missing", "found"} /\ (at = "found" => file[f] # Absent)
      BY <3>1 DEF DownState
    <3> HIDE DEF new, at
    <3> QED
      BY <3>1, <3>2 DEF Typed
  <2>2. CASE ReadDone(g)
    <3> DEFINE sure == IF down[g].open.turn = begun[down[g].name] THEN down[g].open.hash ELSE Absent
               new == [down[g] EXCEPT !.at = "done", !.sure = sure]
    <3>1. down[g].open \in Opened /\ down[g] \in DownState
      BY <2>2 DEF ReadDone, UnderWay, Typed, DownState
    <3>2. sure \in Contents \cup {Absent}
      BY <3>1 DEF Opened
    <3>3. down' = [down EXCEPT ![g] = new]
      BY <2>2 DEF ReadDone, Typed
    <3>4. new \in DownState /\ new.at = "done" /\ new.got = down[g].got /\ new.sure = sure
      BY <3>1, <3>2 DEF DownState
    <3>5. down[g].at = "read" /\ Len(down[g].got) = down[g].open.len
      BY <2>2 DEF ReadDone
    <3> HIDE DEF new
    <3> QED
      BY <3>3, <3>4, <3>5 DEF Typed
  <2>3. CASE ReadBreaks(g)
    <3> DEFINE new == [NoDownload EXCEPT !.at = "broken"]
    <3>0. <<>> \in Contents
      BY DEF Contents
    <3>1. new \in DownState /\ new.at = "broken"
      BY <3>0 DEF NoDownload, DownState
    <3>2. down' = [down EXCEPT ![g] = new]
      BY <2>3 DEF ReadBreaks
    <3> HIDE DEF new
    <3> QED
      BY <3>1, <3>2 DEF Typed
  <2> QED
    BY <2>1, <2>2, <2>3
<1>3. Typed'
  BY <1>0, <1>2 DEF Typed
<1>4. UnderWay'
  BY <1>0, <1>2 DEF UnderWay
<1>5. DownloadMatchesAnswer'
  <2>1. ASSUME down[g].at = "read", Len(down[g].got) = down[g].open.len,
               down[g].open.turn = begun[down[g].name], down[g].open.hash # Absent
        PROVE  down[g].got = down[g].open.hash
    <3>1. /\ down[g].open.len = Len(down[g].open.hash)
          /\ Begins(down[g].got, down[g].open.hash, Len(down[g].got))
      BY <2>1 DEF SureInv, Sure
    <3>2. down[g].open.hash \in Contents /\ down[g].got \in Contents
      BY <2>1 DEF UnderWay, Typed, DownState, Opened
    <3> QED
      BY <2>1, <3>1, <3>2, SameSequence DEF Contents
  <2> QED
    BY <1>2, <2>1 DEF DownloadMatchesAnswer
<1>6. \A k \in Names : handle'[k] # Absent => Sure(k, handle'[k])
  BY <1>0 DEF SureInv
<1>7. \A k \in Downloads : down'[k].at = "read" => down'[k] = down[k]
  BY <1>2
<1>8. \A k \in Downloads : down'[k].at = "read" =>
        /\ Sure(down'[k].name, down'[k].open)
        /\ down'[k].open.hash # Absent /\ down'[k].open.turn = begun[down'[k].name] =>
             /\ Len(down'[k].got) <= Len(down'[k].open.hash)
             /\ Begins(down'[k].got, down'[k].open.hash, Len(down'[k].got))
  BY <1>7 DEF SureInv
<1> QED
  BY <1>0, <1>3, <1>4, <1>5, <1>6, <1>8, DownloadKeeps

LEMMA ExpiryKeeps ==
  ASSUME FirmwareAssumption, FirmwareInv, NEW f \in Names, HandleExpires(f)
  PROVE  FirmwareInv'
<1> USE DEF FirmwareInv
<1>1. /\ UNCHANGED <<file, upload, down, begun, settled>>
      /\ handle' \in [Names -> Opened \cup {Absent}]
      /\ \A k \in Names : handle'[k] = handle[k] \/ handle'[k] = Absent
  BY DEF HandleExpires, Typed
<1>2. Typed' /\ UnderWay' /\ DownloadMatchesAnswer'
  BY <1>1 DEF Typed, UnderWay, DownloadMatchesAnswer
<1> QED
  BY <1>1, <1>2, DownloadKeeps DEF SureInv

-----------------------------------------------------------------------------
LEMMA FirmwareNextInv ==
  ASSUME FirmwareAssumption, FirmwareInv, [FirmwareNext]_firmwareVars
  PROVE  FirmwareInv'
<1>1. ASSUME NEW u \in Uploads, UploadStep(u)
      PROVE  FirmwareInv'
  BY <1>1, CreateKeeps, WriteKeeps, ProgressKeeps, AnswerKeeps DEF UploadStep
<1>2. ASSUME NEW g \in Downloads, DownloadStep(g)
      PROVE  FirmwareInv'
  <2>1. CASE OpenFile(g)
    BY <2>1, OpenKeeps
  <2>2. CASE ReadBlock(g)
    BY <2>2, ReadKeeps
  <2>3. ASSUME NEW f \in Names, StatFile(g, f)
        PROVE  FirmwareInv'
    BY <2>3, OtherDownloadsKeep
  <2>4. CASE ReadDone(g) \/ ReadBreaks(g)
    BY <2>4, OtherDownloadsKeep
  <2> QED
    BY <1>2, <2>1, <2>2, <2>3, <2>4 DEF DownloadStep
<1>3. ASSUME UNCHANGED firmwareVars
      PROVE  FirmwareInv'
  BY <1>3 DEF firmwareVars, FirmwareInv, Typed, UnderWay, SoleInv, Sole, Saving, Begins,
       SureInv, Sure, Stands, AnswerIsTrue, DownloadMatchesAnswer
<1> QED
  BY <1>1, <1>2, <1>3, ExpiryKeeps DEF FirmwareNext

-----------------------------------------------------------------------------
(* FirmwareInv always holds.                                               *)
LEMMA FirmwareCorrect == FirmwareSpec => []FirmwareInv
  BY FirmwareAssumption, FirmwareInitInv, FirmwareNextInv, PTL DEF FirmwareSpec

(* The variables keep their types: a file is a sequence of blocks and      *)
(* holes, and UploadFile goes on to the hash only when all is written.     *)
THEOREM FirmwareTypeCorrect == FirmwareSpec => []FirmwareTypeOK
<1>1. ASSUME FirmwareAssumption, FirmwareInv
      PROVE  FirmwareTypeOK
  <2>1. /\ \A f \in Names : file[f] \in Contents \cup {Absent} /\ begun[f] \in Nat
        /\ \A g \in Downloads : down[g] \in DownState
        /\ \A u \in Uploads : upload[u] \in UploadState
    BY <1>1 DEF FirmwareInv, Typed
  <2>2. ASSUME NEW u \in Uploads
        PROVE  /\ upload[u].at \notin {"idle", "failed"} =>
                    upload[u].name \in Names /\ upload[u].image \in Images
               /\ upload[u].done \in 0 .. Len(upload[u].image)
               /\ upload[u].at \in {"hash", "answered"} => upload[u].done = Len(upload[u].image)
    <3>1. upload[u].at \in {"idle", "write", "hash", "answered", "failed"} /\ upload[u].done \in Nat
      BY <2>1 DEF UploadState
    <3>2. upload[u].image \in Images \/ upload[u].image = <<>>
      BY <2>1 DEF UploadState
    <3>3. Len(upload[u].image) \in Nat
      <4>1. CASE upload[u].image \in Images
        <5>1. upload[u].image \in Seq(Blocks)
          BY <1>1, <4>1 DEF FirmwareAssumption
        <5> QED
          BY <5>1
      <4>2. CASE upload[u].image = <<>>
        BY <4>2
      <4> QED
        BY <3>2, <4>1, <4>2
    <3> QED
      BY <1>1, <3>1, <3>3 DEF FirmwareInv, UnderWay
  <2> QED
    BY <2>1, <2>2 DEF FirmwareTypeOK, UploadState, DownState
<1> QED
  BY <1>1, FirmwareAssumption, FirmwareCorrect, PTL

(* The hash UploadFile answers is that of the upload, unless another       *)
(* upload of the name was under way meanwhile.                             *)
THEOREM AnswersAreTrue == FirmwareSpec => []AnswerIsTrue
  BY FirmwareCorrect, PTL DEF FirmwareInv

(* A download after the answer and before the next upload of the name      *)
(* gives content with the hash that was answered, unless the framework     *)
(* still holds open the file it opened before.                             *)
THEOREM DownloadsMatch == FirmwareSpec => []DownloadMatchesAnswer
  BY FirmwareCorrect, PTL DEF FirmwareInv

-----------------------------------------------------------------------------
(* The directory as a safe register.  A view that was opened after the     *)
(* release and before the next upload is of the release.                   *)
Agreed ==
  /\ \A f \in Names : handle[f] # Absent /\ SoundView(f, handle[f]) =>
       handle[f].hash = settled[f]
  /\ \A g \in Downloads : down[g].at = "read" /\ SoundView(down[g].name, down[g].open) =>
       down[g].open.hash = settled[down[g].name]

(* As long as an open file is of the release, nobody settles another: a    *)
(* step that changes the releases changes none that a sound view is of.    *)
LEMMA AgreedStays ==
  ASSUME FirmwareInv, Agreed,
         \A f \in Names : begun'[f] \in Nat /\ begun'[f] >= begun[f],
         \A f \in Names : \/ settled'[f] = settled[f]
                          \/ begun'[f] > begun[f]
                          \/ \E u \in Uploads : Saving(u, f),
         \A f \in Names : handle'[f] # Absent =>
            \/ handle[f] # Absent /\ handle'[f] = handle[f]
            \/ handle'[f].hash = settled[f] /\ settled'[f] = settled[f],
         \A g \in Downloads : down'[g].at = "read" =>
            \/ /\ down[g].at = "read"
               /\ down'[g].name = down[g].name /\ down'[g].open = down[g].open
            \/ /\ down'[g].name \in Names /\ handle'[down'[g].name] # Absent
               /\ down'[g].open = handle'[down'[g].name]
  PROVE  Agreed'
<1>1. ASSUME NEW f \in Names, NEW o \in Opened, Sure(f, o),
             SoundView(f, o) => o.hash = settled[f], SoundView(f, o)'
      PROVE  o.hash = settled'[f]
  <2>1. o.turn \in Nat /\ begun[f] \in Nat /\ o.turn <= begun[f]
        /\ o.turn = begun'[f] /\ o.hash # Absent
    BY <1>1 DEF Opened, Sure, SoundView, FirmwareInv, Typed
  <2>2. begun'[f] = begun[f]
    BY <2>1
  <2>3. o.hash = settled[f] /\ \A u \in Uploads : ~Saving(u, f)
    BY <1>1, <2>1, <2>2 DEF Sure, SoundView, Stands
  <2> QED
    BY <2>1, <2>2, <2>3
<1>2. ASSUME NEW f \in Names, handle'[f] # Absent, SoundView(f, handle[f])'
      PROVE  handle'[f].hash = settled'[f]
  <2>1. CASE handle[f] # Absent /\ handle'[f] = handle[f]
    <3>1. handle[f] \in Opened /\ Sure(f, handle[f])
      BY <2>1 DEF FirmwareInv, Typed, SureInv
    <3>2. SoundView(f, handle[f]) => handle[f].hash = settled[f]
      BY <2>1 DEF Agreed
    <3>3. \A o : o = handle[f] /\ SoundView(f, handle[f])' => SoundView(f, o)'
      BY <2>1 DEF SoundView
    <3> QED
      BY <1>1, <1>2, <2>1, <3>1, <3>2, <3>3
  <2> QED
    BY <1>2, <2>1
<1>3. ASSUME NEW g \in Downloads, down'[g].at = "read",
             SoundView(down[g].name, down[g].open)'
      PROVE  down'[g].open.hash = settled'[down'[g].name]
  <2>1. CASE /\ down[g].at = "read"
             /\ down'[g].name = down[g].name /\ down'[g].open = down[g].open
    <3>1. PICK f, o : f = down[g].name /\ o = down[g].open
      OBVIOUS
    <3>2. f \in Names /\ o \in Opened /\ Sure(f, o)
      BY <2>1, <3>1 DEF FirmwareInv, Typed, UnderWay, DownState, SureInv
    <3>3. SoundView(f, o) => o.hash = settled[f]
      BY <2>1, <3>1 DEF Agreed
    <3>4. SoundView(f, o)'
      BY <1>3, <2>1, <3>1 DEF SoundView
    <3> QED
      BY <1>1, <2>1, <3>1, <3>2, <3>3, <3>4
  <2>2. CASE /\ down'[g].name \in Names /\ handle'[down'[g].name] # Absent
             /\ down'[g].open = handle'[down'[g].name]
    <3>1. \A f \in Names : f = down'[g].name => SoundView(f, handle[f])'
      BY <1>3, <2>2 DEF SoundView
    <3> QED
      BY <1>2, <2>2, <3>1
  <2> QED
    BY <1>3, <2>1, <2>2
<1> QED
  BY <1>2, <1>3 DEF Agreed

LEMMA AgreedNext ==
  ASSUME FirmwareAssumption, FirmwareInv, Agreed, [FirmwareNext]_firmwareVars
  PROVE  Agreed'
<1>0. begun \in [Names -> Nat] /\ settled \in [Names -> Contents \cup {Absent}]
      /\ handle \in [Names -> Opened \cup {Absent}] /\ down \in [Downloads -> DownState]
  BY DEF FirmwareInv, Typed
<1>1. ASSUME NEW u \in Uploads, UploadStep(u) PROVE Agreed'
  <2>1. handle' = handle /\ down' = down
    BY <1>1 DEF UploadStep, CreateFile, CreateTo, WriteBlock, SaveDone, UploadFails, HashBlock,
         AnswerUpload, AnswerWith
  <2>2. ASSUME NEW f \in Names, NEW i \in Images, CreateFile(u, f, i)
        PROVE  \A k \in Names : /\ begun'[k] \in Nat /\ begun'[k] >= begun[k]
                                /\ settled'[k] = settled[k] \/ begun'[k] > begun[k]
    BY <1>0, <2>2 DEF CreateFile, CreateTo
  <2>3. CASE AnswerUpload(u)
    <3>1. /\ upload[u].at = "hash" /\ upload[u].name \in Names /\ begun' = begun
          /\ \A k \in Names \ {upload[u].name} : settled'[k] = settled[k]
      BY <1>0, <2>3 DEF AnswerUpload, AnswerWith, FirmwareInv, UnderWay
    <3>2. Saving(u, upload[u].name)
      BY <3>1 DEF Saving
    <3>3. \A k \in Names : settled'[k] = settled[k] \/ \E v \in Uploads : Saving(v, k)
      BY <3>1, <3>2
    <3>4. \A k \in Names : begun'[k] \in Nat /\ begun'[k] >= begun[k]
      BY <1>0, <3>1
    <3> QED
      BY <2>1, <3>3, <3>4, AgreedStays
  <2>4. CASE WriteBlock(u) \/ SaveDone(u) \/ UploadFails(u) \/ HashBlock(u)
    <3>1. begun' = begun /\ settled' = settled
      BY <2>4 DEF WriteBlock, SaveDone, UploadFails, HashBlock
    <3>2. \A k \in Names : begun'[k] \in Nat /\ begun'[k] >= begun[k]
      BY <1>0, <3>1
    <3> QED
      BY <2>1, <3>1, <3>2, AgreedStays
  <2>5. ASSUME NEW f \in Names, NEW i \in Images, CreateFile(u, f, i) PROVE Agreed'
    BY <2>1, <2>2, <2>5, AgreedStays
  <2> QED
    BY <1>1, <2>3, <2>4, <2>5 DEF UploadStep
<1>2. ASSUME NEW g \in Downloads, DownloadStep(g) PROVE Agreed'
  <2>1. UNCHANGED <<begun, settled>>
    BY <1>2 DEF DownloadStep, StatFile, OpenFile, ReadBlock, ReadDone, ReadBreaks
  <2>2. /\ \A k \in Names : begun'[k] \in Nat /\ begun'[k] >= begun[k]
        /\ \A k \in Names : settled'[k] = settled[k]
    BY <1>0, <2>1
  <2>3. CASE OpenFile(g)
    <3> DEFINE f == down[g].name
               open == IF handle[f] # Absent THEN handle[f]
                       ELSE [len |-> Len(file[f]), hash |-> settled[f], turn |-> begun[f]]
    <3>1. /\ f \in Names
          /\ handle' = [handle EXCEPT ![f] = open]
          /\ down' = [down EXCEPT ![g].at = "read", ![g].open = open]
      BY <2>3 DEF OpenFile, FirmwareInv, UnderWay
    <3>2. handle[f] # Absent \/ open.hash = settled[f]
      OBVIOUS
    <3>3. handle[f] = Absent => open.hash = settled[f]
      BY <3>2
    <3>4. handle[f] # Absent => open = handle[f]
      OBVIOUS
    <3>5. open # Absent
      <4>1. handle[f] = Absent => open \in Opened
        <5>1. file[f] \in Contents /\ Len(file[f]) \in Nat
          BY <2>3, <3>1 DEF OpenFile, FirmwareInv, UnderWay, Typed, Contents
        <5> QED
          BY <1>0, <3>1, <5>1 DEF Opened
      <4> QED
        BY <4>1, <3>4 DEF FirmwareAssumption
    <3>6. /\ handle'[f] = open /\ \A k \in Names \ {f} : handle'[k] = handle[k]
          /\ down'[g].open = open /\ down'[g].name = f
          /\ \A k \in Downloads \ {g} : down'[k] = down[k]
      BY <1>0, <3>1 DEF DownState
    <3> HIDE DEF open
    <3>7. \A k \in Names : handle'[k] # Absent =>
            \/ handle[k] # Absent /\ handle'[k] = handle[k]
            \/ handle'[k].hash = settled[k] /\ settled'[k] = settled[k]
      BY <2>2, <3>3, <3>4, <3>6
    <3>8. \A k \in Downloads : down'[k].at = "read" =>
            \/ /\ down[k].at = "read"
               /\ down'[k].name = down[k].name /\ down'[k].open = down[k].open
            \/ /\ down'[k].name \in Names /\ handle'[down'[k].name] # Absent
               /\ down'[k].open = handle'[down'[k].name]
      BY <3>1, <3>5, <3>6
    <3> QED
      BY <2>2, <3>7, <3>8, AgreedStays
  <2>4. CASE ~OpenFile(g)
    <3>1. /\ handle' = handle
          /\ \A k \in Downloads \ {g} : down'[k] = down[k]
          /\ down'[g].at = "read" =>
               /\ down[g].at = "read"
               /\ down'[g].name = down[g].name /\ down'[g].open = down[g].open
      <4>1. ASSUME NEW f \in Names, StatFile(g, f) PROVE (\A k \in Downloads \ {g} : down'[k] = down[k]) /\ down'[g].at # "read"
        BY <1>0, <4>1 DEF StatFile, DownState
      <4>2. CASE ReadBlock(g)
        BY <1>0, <4>2 DEF ReadBlock, DownState
      <4>3. CASE ReadDone(g)
        BY <1>0, <4>3 DEF ReadDone, DownState
      <4>4. CASE ReadBreaks(g)
        BY <1>0, <4>4 DEF ReadBreaks, NoDownload, DownState
      <4>5. handle' = handle
        BY <1>2, <2>4 DEF DownloadStep, StatFile, ReadBlock, ReadDone, ReadBreaks
      <4> QED
        BY <1>2, <2>4, <4>1, <4>2, <4>3, <4>4, <4>5 DEF DownloadStep
    <3>2. \A k \in Downloads : down'[k].at = "read" =>
               /\ down[k].at = "read"
               /\ down'[k].name = down[k].name /\ down'[k].open = down[k].open
      BY <3>1
    <3> QED
      BY <2>2, <3>1, <3>2, AgreedStays
  <2> QED
    BY <2>3, <2>4
<1>3. ASSUME NEW f \in Names, HandleExpires(f) PROVE Agreed'
  <2>1. /\ UNCHANGED <<down, begun, settled>>
        /\ \A k \in Names : handle'[k] = handle[k] \/ handle'[k] = Absent
    BY <1>0, <1>3 DEF HandleExpires
  <2>2. \A k \in Names : begun'[k] \in Nat /\ begun'[k] >= begun[k]
    BY <1>0, <2>1
  <2> QED
    BY <2>1, <2>2, AgreedStays
<1>4. ASSUME UNCHANGED firmwareVars PROVE Agreed'
  BY <1>4 DEF firmwareVars, Agreed, SoundView
<1> QED
  BY <1>1, <1>2, <1>3, <1>4 DEF FirmwareNext

(* What FirmwareStore tells of who is at the directory.                    *)
LEMMA SeenFacts ==
  ASSUME FirmwareAssumption, FirmwareInv
  PROVE  /\ \A u \in Uploads : IF upload[u].at \in {"write", "hash"}
              THEN /\ StoreWriting[u] \in Writings
                   /\ StoreWriting[u] # Absent
                   /\ StoreWriting[u].name = upload[u].name
                   /\ StoreWriting[u].image = upload[u].image
                   /\ StoreWriting[u].sole <=> upload[u].turn = begun[upload[u].name]
                   /\ StoreAnswer[u] = Absent
              ELSE StoreWriting[u] = Absent
         /\ \A u \in Uploads : upload[u].at = "idle" => StoreAnswer[u] = Absent
         /\ \A g \in Downloads : IF down[g].at = "read"
              THEN /\ StoreReading[g] \in Readings
                   /\ StoreReading[g] # Absent
                   /\ StoreReading[g].name = down[g].name
                   /\ StoreReading[g].sound <=> SoundView(down[g].name, down[g].open)
              ELSE StoreReading[g] = Absent
         /\ \A u \in Uploads, f \in Names : Store!WritingTo(u, f) <=> Saving(u, f)
         /\ \A g \in Downloads, f \in Names :
              Store!ReadingOf(g, f) <=> down[g].at = "read" /\ down[g].name = f
<1>1. ASSUME NEW u \in Uploads, upload[u].at \in {"write", "hash"}
      PROVE  /\ StoreWriting[u] \in Writings
             /\ StoreWriting[u] # Absent
             /\ StoreWriting[u].name = upload[u].name
             /\ StoreWriting[u].image = upload[u].image
             /\ StoreWriting[u].sole <=> upload[u].turn = begun[upload[u].name]
             /\ StoreAnswer[u] = Absent
  <2>1. upload[u].name \in Names /\ upload[u].image \in Images
    BY <1>1 DEF FirmwareInv, UnderWay
  <2>0. PICK b \in BOOLEAN : b = (upload[u].turn = begun[upload[u].name])
    OBVIOUS
  <2>2. StoreWriting[u] = [name |-> upload[u].name, image |-> upload[u].image, sole |-> b]
    BY <1>1, <2>0 DEF StoreWriting
  <2>3. StoreWriting[u] \in Writings
    BY <2>1, <2>2 DEF Writings
  <2>4. StoreWriting[u].sole = b
    BY <2>2
  <2>5. StoreWriting[u] # Absent
    BY <2>3 DEF FirmwareAssumption
  <2>6. StoreAnswer[u] = Absent
    BY <1>1 DEF StoreAnswer
  <2>7. StoreWriting[u].sole <=> upload[u].turn = begun[upload[u].name]
    <3>1. CASE b = TRUE
      <4>1. StoreWriting[u].sole
        BY <2>4, <3>1, Zenon
      <4>2. upload[u].turn = begun[upload[u].name]
        BY <2>0, <3>1
      <4> QED
        BY <4>1, <4>2
    <3>2. CASE b = FALSE
      BY <2>0, <2>4, <3>2
    <3> QED
      BY <2>0, <3>1, <3>2
  <2> QED
    BY <2>2, <2>3, <2>5, <2>6, <2>7
<1>2. ASSUME NEW g \in Downloads, down[g].at = "read"
      PROVE  /\ StoreReading[g] \in Readings
             /\ StoreReading[g] # Absent
             /\ StoreReading[g].name = down[g].name
             /\ StoreReading[g].sound <=> SoundView(down[g].name, down[g].open)
  <2>1. down[g].name \in Names
    BY <1>2 DEF FirmwareInv, UnderWay
  <2>2. StoreReading[g] = [name |-> down[g].name,
                           sound |-> SoundView(down[g].name, down[g].open)]
    BY <1>2 DEF StoreReading
  <2>3. StoreReading[g] \in Readings
    BY <2>1, <2>2 DEF Readings, SoundView
  <2> QED
    BY <2>2, <2>3 DEF FirmwareAssumption
<1>3. /\ \A u \in Uploads : upload[u].at \notin {"write", "hash"} => StoreWriting[u] = Absent
      /\ \A u \in Uploads : upload[u].at = "idle" => StoreAnswer[u] = Absent
      /\ \A g \in Downloads : down[g].at # "read" => StoreReading[g] = Absent
  BY DEF StoreWriting, StoreAnswer, StoreReading
<1>4. \A u \in Uploads, f \in Names : Store!WritingTo(u, f) <=> Saving(u, f)
  BY <1>1, <1>3 DEF Store!WritingTo, Saving
<1>5. \A g \in Downloads, f \in Names :
        Store!ReadingOf(g, f) <=> down[g].at = "read" /\ down[g].name = f
  BY <1>2, <1>3 DEF Store!ReadingOf
<1> QED
  BY <1>1, <1>2, <1>3, <1>4, <1>5

(* Begin.                                                                  *)
LEMMA CreateView ==
  ASSUME FirmwareAssumption, FirmwareInv,
         NEW u \in Uploads, NEW f \in Names, NEW i \in Images, CreateFile(u, f, i)
  PROVE  Store!Begin(u, f, i)
<1> DEFINE turn == IF \E v \in Uploads : Saving(v, f) THEN 0 ELSE begun[f] + 1
           new == [at |-> "write", name |-> f, image |-> i, done |-> 0, hash |-> <<>>,
                   alone |-> FALSE, turn |-> turn]
<1>0. begun \in [Names -> Nat] /\ upload \in [Uploads -> UploadState]
      /\ handle \in [Names -> Opened \cup {Absent}] /\ settled \in [Names -> Contents \cup {Absent}]
  BY DEF FirmwareInv, Typed
<1>1. /\ upload[u].at = "idle"
      /\ begun' = [begun EXCEPT ![f] = begun[f] + 1]
      /\ settled' = [settled EXCEPT ![f] = Absent]
      /\ upload' = [upload EXCEPT ![u] = new]
      /\ handle' = handle /\ down' = down
  BY <1>0 DEF CreateFile, CreateTo
<1>2. /\ upload'[u] = new /\ \A v \in Uploads \ {u} : upload'[v] = upload[v]
      /\ begun'[f] = begun[f] + 1 /\ \A k \in Names \ {f} : begun'[k] = begun[k]
      /\ begun[f] \in Nat
  BY <1>0, <1>1
<1>3. StoreWriting[u] = Absent /\ StoreAnswer[u] = Absent
  BY <1>1, SeenFacts
<1>4. StoreWriting'[u] = [name |-> f, image |-> i,
                          sole |-> \A w \in Uploads : ~Store!WritingTo(w, f)]
  <2>1. StoreWriting'[u] = [name |-> f, image |-> i, sole |-> turn = begun[f] + 1]
    BY <1>2 DEF StoreWriting
  <2>2. (turn = begun[f] + 1) <=> \A w \in Uploads : ~Saving(w, f)
    BY <1>2
  <2>3. (turn = begun[f] + 1) = \A w \in Uploads : ~Store!WritingTo(w, f)
    BY <2>2, SeenFacts
  <2> QED
    BY <2>1, <2>3
<1>5. ASSUME NEW v \in Uploads \ {u}
      PROVE  StoreWriting'[v] = IF Store!WritingTo(v, f)
                                THEN [name |-> f, image |-> StoreWriting[v].image,
                                      sole |-> FALSE]
                                ELSE StoreWriting[v]
  <2>1. upload'[v] = upload[v]
    BY <1>2
  <2>2. CASE Saving(v, f)
    <3>1. upload[v].turn # begun'[f]
      <4>1. upload[v].turn <= begun[f] /\ upload[v].turn \in Nat
        BY <1>0, <2>2 DEF Saving, FirmwareInv, UnderWay, UploadState
      <4> QED
        BY <1>2, <4>1
    <3>2. StoreWriting'[v] = [name |-> f, image |-> upload[v].image, sole |-> FALSE]
      BY <2>1, <2>2, <3>1 DEF StoreWriting, Saving
    <3>3. Store!WritingTo(v, f) /\ StoreWriting[v].image = upload[v].image
      BY <2>2, SeenFacts DEF Saving
    <3> QED
      BY <3>2, <3>3
  <2>3. CASE ~Saving(v, f)
    <3>1. upload[v].at \in {"write", "hash"} => begun'[upload[v].name] = begun[upload[v].name]
      BY <1>2, <2>3 DEF Saving, FirmwareInv, UnderWay
    <3>2. StoreWriting'[v] = StoreWriting[v]
      BY <2>1, <3>1 DEF StoreWriting
    <3> QED
      BY <2>3, <3>2, SeenFacts
  <2> QED
    BY <2>2, <2>3
<1>6. StoreWriting' = [v \in Uploads |->
        IF v = u THEN [name |-> f, image |-> i,
                       sole |-> \A w \in Uploads : ~Store!WritingTo(w, f)]
        ELSE IF Store!WritingTo(v, f)
             THEN [name |-> f, image |-> StoreWriting[v].image, sole |-> FALSE]
        ELSE StoreWriting[v]]
  <2>1. StoreWriting' = [v \in Uploads |-> StoreWriting'[v]]
    BY DEF StoreWriting
  <2> QED
    BY <1>4, <1>5, <2>1
<1>7. \A k \in Names, o \in Opened : Sure(k, o) =>
        (SoundView(k, o)' <=> SoundView(k, o) /\ k # f)
  BY <1>0, <1>2 DEF SoundView, Sure, Opened
<1>8. StoreView' = [StoreView EXCEPT ![f] = IF @ = "none" THEN "none" ELSE "stale"]
  <2>1. \A k \in Names : handle[k] # Absent => handle[k] \in Opened /\ Sure(k, handle[k])
    BY <1>0 DEF FirmwareInv, SureInv
  <2>2. \A k \in Names : handle[k] # Absent =>
          (SoundView(k, handle[k])' <=> SoundView(k, handle[k]) /\ k # f)
    BY <1>1, <1>7, <2>1 DEF SoundView
  <2>3. \A k \in Names : StoreView'[k] = IF k = f THEN IF StoreView[f] = "none" THEN "none" ELSE "stale"
                                         ELSE StoreView[k]
    BY <1>1, <2>2 DEF StoreView
  <2> QED
    BY <2>3 DEF StoreView
<1>9. StoreReading' = [g \in Downloads |->
        IF Store!ReadingOf(g, f) THEN [name |-> f, sound |-> FALSE]
        ELSE StoreReading[g]]
  <2>1. ASSUME NEW g \in Downloads, down[g].at = "read"
        PROVE  SoundView(down[g].name, down[g].open)' <=>
                 SoundView(down[g].name, down[g].open) /\ down[g].name # f
    <3>1. PICK k, o : k = down[g].name /\ o = down[g].open
      OBVIOUS
    <3>2. k \in Names /\ o \in Opened /\ Sure(k, o)
      BY <2>1, <3>1 DEF FirmwareInv, Typed, UnderWay, DownState, SureInv
    <3> QED
      BY <1>1, <1>7, <3>1, <3>2 DEF SoundView
  <2>2. ASSUME NEW g \in Downloads
        PROVE  StoreReading'[g] = IF Store!ReadingOf(g, f)
                                  THEN [name |-> f, sound |-> FALSE]
                                  ELSE StoreReading[g]
    <3>1. CASE down[g].at = "read"
      <4>1. /\ StoreReading[g] = [name |-> down[g].name,
                                  sound |-> SoundView(down[g].name, down[g].open)]
            /\ StoreReading'[g] = [name |-> down[g].name,
                                   sound |-> SoundView(down[g].name, down[g].open)']
        BY <1>1, <3>1 DEF StoreReading
      <4>2. CASE down[g].name = f
        <5>1. ~SoundView(down[g].name, down[g].open)'
          BY <2>1, <3>1, <4>2
        <5>2. SoundView(down[g].name, down[g].open)' = FALSE
          BY <5>1 DEF SoundView
        <5>3. Store!ReadingOf(g, f)
          BY <3>1, <4>2, SeenFacts
        <5>4. StoreReading'[g] = [name |-> f, sound |-> FALSE]
          BY <4>1, <4>2, <5>2
        <5> QED
          BY <5>3, <5>4
      <4>3. CASE down[g].name # f
        <5>1. SoundView(down[g].name, down[g].open)' = SoundView(down[g].name, down[g].open)
          BY <2>1, <3>1, <4>3 DEF SoundView
        <5>2. ~Store!ReadingOf(g, f)
          BY <4>3, SeenFacts
        <5> QED
          BY <4>1, <5>1, <5>2
      <4> QED
        BY <4>2, <4>3
    <3>2. CASE down[g].at # "read"
      BY <1>1, <3>2, SeenFacts DEF StoreReading
    <3> QED
      BY <3>1, <3>2
  <2>3. StoreReading' = [g \in Downloads |-> StoreReading'[g]]
    BY DEF StoreReading
  <2> QED
    BY <2>2, <2>3
<1>10. StoreAnswer' = StoreAnswer /\ StoreGiven' = StoreGiven
  <2>1. \A v \in Uploads : StoreAnswer'[v] = StoreAnswer[v]
    BY <1>1, <1>2 DEF StoreAnswer
  <2> QED
    BY <1>1, <2>1 DEF StoreAnswer, StoreGiven
<1> QED
  BY <1>1, <1>3, <1>6, <1>8, <1>9, <1>10 DEF Store!Begin

(* Release, or AnswerOverlapped.                                           *)
LEMMA AnswerView ==
  ASSUME FirmwareAssumption, FirmwareInv, FirmwareInv', NEW u \in Uploads, AnswerUpload(u)
  PROVE  Store!Release(u) \/ Store!AnswerOverlapped(u)
<1> DEFINE f == upload[u].name  alone == upload[u].turn = begun[f]
<1>0. /\ upload \in [Uploads -> UploadState] /\ settled \in [Names -> Contents \cup {Absent}]
      /\ begun \in [Names -> Nat] /\ upload[u] \in UploadState
  BY DEF FirmwareInv, Typed
<1>1. /\ upload[u].at = "hash" /\ f \in Names
      /\ upload' = [upload EXCEPT ![u].at = "answered", ![u].hash = upload[u].hash,
                                 ![u].alone = alone]
      /\ settled' = [settled EXCEPT ![f] = IF alone THEN upload[u].hash ELSE settled[f]]
      /\ UNCHANGED <<file, handle, down, begun>>
  BY <1>0 DEF AnswerUpload, AnswerWith, FirmwareInv, UnderWay
<1>2. /\ upload'[u].at = "answered" /\ upload'[u].hash = upload[u].hash
      /\ upload'[u].image = upload[u].image /\ upload'[u].alone = alone
      /\ \A v \in Uploads \ {u} : upload'[v] = upload[v]
  BY <1>0, <1>1 DEF UploadState
<1>3. alone => upload[u].hash = upload[u].image
  BY <1>2 DEF FirmwareInv, AnswerIsTrue
<1>4. /\ StoreWriting[u] # Absent /\ (StoreWriting[u].sole <=> alone)
      /\ StoreWriting[u].name = f /\ StoreWriting[u].image = upload[u].image
  BY <1>1, SeenFacts
<1>5. StoreWriting' = [StoreWriting EXCEPT ![u] = Absent]
  <2>1. \A v \in Uploads : StoreWriting'[v] = IF v = u THEN Absent ELSE StoreWriting[v]
    BY <1>1, <1>2 DEF StoreWriting
  <2> QED
    BY <2>1 DEF StoreWriting
<1>6. StoreAnswer' = [StoreAnswer EXCEPT ![u] = upload[u].hash]
  <2>1. \A v \in Uploads : StoreAnswer'[v] = IF v = u THEN upload[u].hash ELSE StoreAnswer[v]
    BY <1>2 DEF StoreAnswer
  <2> QED
    BY <2>1 DEF StoreAnswer
<1>7. UNCHANGED <<StoreView, StoreReading, StoreGiven>>
  BY <1>1 DEF StoreView, StoreReading, StoreGiven, SoundView
<1>8. CASE alone
  BY <1>1, <1>3, <1>4, <1>5, <1>6, <1>7, <1>8 DEF Store!Release
<1>9. CASE ~alone
  <2>1. settled' = settled
    BY <1>0, <1>1, <1>9
  <2>2. StoreAnswer'[u] = upload[u].hash /\ upload[u].hash \in Contents
    BY <1>0, <1>6 DEF StoreAnswer, UploadState
  <2>3. StoreAnswer' = [StoreAnswer EXCEPT ![u] = StoreAnswer'[u]]
    BY <1>6, <2>2
  <2> QED
    BY <1>4, <1>5, <1>7, <1>9, <2>1, <2>2, <2>3 DEF Store!AnswerOverlapped
<1> QED
  BY <1>8, <1>9

(* The other steps of an upload: GiveUp, or nothing that can be seen.      *)
LEMMA UploadView ==
  ASSUME FirmwareAssumption, FirmwareInv, NEW u \in Uploads,
         WriteBlock(u) \/ SaveDone(u) \/ HashBlock(u) \/ UploadFails(u)
  PROVE  Store!GiveUp(u) \/ UNCHANGED Store!storeVars
<1>0. upload \in [Uploads -> UploadState] /\ upload[u] \in UploadState
  BY DEF FirmwareInv, Typed
<1>1. UNCHANGED <<handle, down, begun, settled>> /\ upload[u].at \in {"write", "hash"}
  BY DEF WriteBlock, SaveDone, HashBlock, UploadFails
<1>2. UNCHANGED <<StoreView, StoreReading, StoreGiven>>
  BY <1>1 DEF StoreView, StoreReading, StoreGiven, SoundView
<1>3. CASE UploadFails(u)
  <2>1. upload'[u].at = "failed" /\ \A v \in Uploads \ {u} : upload'[v] = upload[v]
    BY <1>0, <1>3 DEF UploadFails, NoUpload
  <2>2. \A v \in Uploads : /\ StoreWriting'[v] = IF v = u THEN Absent ELSE StoreWriting[v]
                           /\ StoreAnswer'[v] = StoreAnswer[v]
    BY <1>1, <2>1 DEF StoreWriting, StoreAnswer
  <2>3. StoreWriting' = [StoreWriting EXCEPT ![u] = Absent] /\ StoreAnswer' = StoreAnswer
    BY <2>2 DEF StoreWriting, StoreAnswer
  <2>4. StoreWriting[u] # Absent
    BY <1>1, SeenFacts
  <2> QED
    BY <1>1, <1>2, <2>3, <2>4 DEF Store!GiveUp
<1>4. CASE WriteBlock(u) \/ SaveDone(u) \/ HashBlock(u)
  <2>1. /\ upload'[u].at \in {"write", "hash"} /\ upload'[u].name = upload[u].name
        /\ upload'[u].image = upload[u].image /\ upload'[u].turn = upload[u].turn
        /\ \A v \in Uploads \ {u} : upload'[v] = upload[v]
    BY <1>0, <1>4 DEF WriteBlock, SaveDone, HashBlock, UploadState
  <2>2. \A v \in Uploads : /\ StoreWriting'[v] = StoreWriting[v]
                           /\ StoreAnswer'[v] = StoreAnswer[v]
    BY <1>1, <2>1 DEF StoreWriting, StoreAnswer
  <2>3. StoreWriting' = StoreWriting /\ StoreAnswer' = StoreAnswer
    BY <2>2 DEF StoreWriting, StoreAnswer
  <2> QED
    BY <1>1, <1>2, <2>3 DEF Store!storeVars
<1> QED
  BY <1>3, <1>4

(* Fetch.                                                                  *)
LEMMA OpenView ==
  ASSUME FirmwareAssumption, FirmwareInv, FirmwareInv', NEW g \in Downloads, OpenFile(g)
  PROVE  \E f \in Names : Store!Fetch(g, f)
<1> DEFINE f == down[g].name
           open == IF handle[f] # Absent THEN handle[f]
                   ELSE [len |-> Len(file[f]), hash |-> settled[f], turn |-> begun[f]]
           sound == IF StoreView[f] = "none" THEN settled[f] # Absent ELSE StoreView[f] = "sound"
<1>0. /\ down \in [Downloads -> DownState] /\ down[g] \in DownState
      /\ handle \in [Names -> Opened \cup {Absent}]
  BY DEF FirmwareInv, Typed
<1>1. /\ f \in Names /\ down[g].at = "found"
      /\ handle' = [handle EXCEPT ![f] = open]
      /\ down' = [down EXCEPT ![g].at = "read", ![g].open = open]
      /\ UNCHANGED <<file, upload, begun, settled>>
  BY DEF OpenFile, FirmwareInv, UnderWay
<1>2. open.hash # Absent /\ open.turn = begun[f] <=> sound
  BY <1>1 DEF StoreView, SoundView
<1> HIDE DEF open
<1>3. /\ down'[g].at = "read" /\ down'[g].open = open /\ down'[g].name = f
      /\ \A k \in Downloads \ {g} : down'[k] = down[k]
      /\ handle'[f] = open /\ \A k \in Names \ {f} : handle'[k] = handle[k]
  BY <1>0, <1>1 DEF DownState
<1>4. open # Absent
  BY <1>3 DEF FirmwareInv, UnderWay
<1>5. SoundView(f, open) = sound
  BY <1>2 DEF SoundView
<1>6. StoreView' = [StoreView EXCEPT ![f] = IF sound THEN "sound" ELSE "stale"]
  <2>1. \A k \in Names : StoreView'[k] = IF k = f THEN IF sound THEN "sound" ELSE "stale"
                                         ELSE StoreView[k]
    BY <1>1, <1>2, <1>3, <1>4 DEF StoreView, SoundView
  <2> QED
    BY <2>1 DEF StoreView
<1>7. StoreReading' = [StoreReading EXCEPT ![g] = [name |-> f, sound |-> sound]]
  <2>1. StoreReading'[g] = [name |-> f, sound |-> sound]
    <3>1. StoreReading'[g] = [name |-> f, sound |-> SoundView(f, open)]
      BY <1>1, <1>3 DEF StoreReading, SoundView
    <3> QED
      BY <1>5, <3>1
  <2>2. \A k \in Downloads \ {g} : StoreReading'[k] = StoreReading[k]
    BY <1>1, <1>3 DEF StoreReading, SoundView
  <2> QED
    BY <2>1, <2>2 DEF StoreReading
<1>8. StoreReading[g] = Absent /\ StoreGiven[g] = Absent
  BY <1>1 DEF StoreReading, StoreGiven
<1>9. StoreGiven' = StoreGiven
  <2>0. down[g].at = "found" /\ down'[g].at = "read"
    BY <1>1, <1>3
  <2>1. \A k \in Downloads : StoreGiven'[k] = StoreGiven[k]
    BY <1>3, <2>0 DEF StoreGiven
  <2>2. StoreGiven' = [k \in Downloads |-> StoreGiven'[k]]
        /\ StoreGiven = [k \in Downloads |-> StoreGiven[k]]
    BY DEF StoreGiven
  <2> QED
    BY <2>1, <2>2
<1>10. UNCHANGED <<settled, StoreWriting, StoreAnswer>>
  BY <1>1 DEF StoreWriting, StoreAnswer
<1> HIDE DEF f, sound
<1>11. Store!Fetch(g, f)
  BY <1>6, <1>7, <1>8, <1>9, <1>10 DEF Store!Fetch, sound
<1> QED
  BY <1>1, <1>11

(* The other steps of a download: Give, BreakOff, or nothing to be seen.   *)
LEMMA DownloadView ==
  ASSUME FirmwareAssumption, FirmwareInv, Agreed, NEW g \in Downloads,
         (\E f \in Names : StatFile(g, f)) \/ ReadBlock(g) \/ ReadDone(g) \/ ReadBreaks(g)
  PROVE  Store!Give(g) \/ Store!BreakOff(g) \/ UNCHANGED Store!storeVars
<1>0. down \in [Downloads -> DownState] /\ down[g] \in DownState
  BY DEF FirmwareInv, Typed
<1>1. UNCHANGED <<upload, handle, begun, settled>>
  BY DEF StatFile, ReadBlock, ReadDone, ReadBreaks
<1>2. UNCHANGED <<StoreWriting, StoreAnswer, StoreView>>
  BY <1>1 DEF StoreWriting, StoreAnswer, StoreView, SoundView
<1>3. /\ StoreReading = [k \in Downloads |-> StoreReading[k]]
      /\ StoreReading' = [k \in Downloads |-> StoreReading'[k]]
      /\ StoreGiven = [k \in Downloads |-> StoreGiven[k]]
      /\ StoreGiven' = [k \in Downloads |-> StoreGiven'[k]]
  BY DEF StoreReading, StoreGiven
<1>4. ASSUME NEW k \in Downloads, down'[k] = down[k]
      PROVE  StoreReading'[k] = StoreReading[k] /\ StoreGiven'[k] = StoreGiven[k]
  BY <1>1, <1>4 DEF StoreReading, StoreGiven, SoundView
<1>5. ASSUME NEW f \in Names, StatFile(g, f) PROVE UNCHANGED Store!storeVars
  <2>1. /\ down[g].at = "idle" /\ down'[g].at \in {"missing", "found"}
        /\ \A k \in Downloads \ {g} : down'[k] = down[k]
    BY <1>0, <1>5 DEF StatFile, DownState
  <2>2. StoreReading'[g] = StoreReading[g] /\ StoreGiven'[g] = StoreGiven[g]
    BY <2>1 DEF StoreReading, StoreGiven
  <2>3. \A k \in Downloads : StoreReading'[k] = StoreReading[k] /\ StoreGiven'[k] = StoreGiven[k]
    BY <1>4, <2>1, <2>2
  <2> QED
    BY <1>1, <1>2, <1>3, <2>3 DEF Store!storeVars
<1>6. CASE ReadBlock(g)
  <2>1. /\ down[g].at = "read" /\ down'[g].at = "read"
        /\ down'[g].name = down[g].name /\ down'[g].open = down[g].open
        /\ \A k \in Downloads \ {g} : down'[k] = down[k]
    BY <1>0, <1>6 DEF ReadBlock, DownState
  <2>2. StoreReading'[g] = StoreReading[g] /\ StoreGiven'[g] = StoreGiven[g]
    BY <1>1, <2>1 DEF StoreReading, StoreGiven, SoundView
  <2>3. \A k \in Downloads : StoreReading'[k] = StoreReading[k] /\ StoreGiven'[k] = StoreGiven[k]
    BY <1>4, <2>1, <2>2
  <2> QED
    BY <1>1, <1>2, <1>3, <2>3 DEF Store!storeVars
<1>7. CASE ReadBreaks(g)
  <2>1. /\ down[g].at = "read" /\ down'[g].at = "broken"
        /\ \A k \in Downloads \ {g} : down'[k] = down[k]
    BY <1>0, <1>7 DEF ReadBreaks, NoDownload
  <2>2. /\ StoreReading[g] # Absent /\ StoreReading'[g] = Absent
        /\ StoreGiven'[g] = StoreGiven[g]
    BY <2>1, SeenFacts DEF StoreReading, StoreGiven
  <2>3. /\ StoreReading' = [StoreReading EXCEPT ![g] = Absent]
        /\ StoreGiven' = StoreGiven
    BY <1>3, <1>4, <2>1, <2>2
  <2> QED
    BY <1>1, <1>2, <2>2, <2>3 DEF Store!BreakOff
<1>8. CASE ReadDone(g)
  <2>1. /\ down[g].at = "read" /\ down'[g].at = "done" /\ down'[g].got = down[g].got
        /\ Len(down[g].got) = down[g].open.len
        /\ \A k \in Downloads \ {g} : down'[k] = down[k]
    BY <1>0, <1>8 DEF ReadDone, DownState
  <2>2. StoreReading[g] # Absent /\ StoreReading[g].name = down[g].name
        /\ (StoreReading[g].sound <=> SoundView(down[g].name, down[g].open))
    BY <2>1, SeenFacts
  <2>3. StoreReading'[g] = Absent /\ StoreGiven'[g] = down[g].got
    BY <2>1 DEF StoreReading, StoreGiven
  <2>4. /\ StoreReading' = [StoreReading EXCEPT ![g] = Absent]
        /\ StoreGiven' = [StoreGiven EXCEPT ![g] = StoreGiven'[g]]
    BY <1>3, <1>4, <2>1, <2>3
  <2>5. StoreGiven'[g] \in Contents
    BY <1>0, <2>3 DEF DownState
  <2>6. ASSUME SoundView(down[g].name, down[g].open)
        PROVE  down[g].got = settled[down[g].name]
    <3>1. /\ down[g].open.hash = settled[down[g].name]
          /\ down[g].open.hash # Absent /\ down[g].open.turn = begun[down[g].name]
      BY <2>1, <2>6 DEF Agreed, SoundView
    <3>2. /\ down[g].open.len = Len(down[g].open.hash)
          /\ Begins(down[g].got, down[g].open.hash, Len(down[g].got))
      BY <2>1, <3>1 DEF FirmwareInv, SureInv, Sure
    <3>3. down[g].open.hash \in Contents /\ down[g].got \in Contents
      BY <1>0, <2>1, <3>1 DEF FirmwareInv, UnderWay, DownState, Opened
    <3> QED
      BY <2>1, <3>1, <3>2, <3>3, SameSequence DEF Contents
  <2>7. StoreReading[g].sound => StoreGiven'[g] = settled[StoreReading[g].name]
    BY <2>2, <2>3, <2>6
  <2> QED
    BY <1>1, <1>2, <2>2, <2>4, <2>5, <2>7 DEF Store!Give
<1> QED
  BY <1>5, <1>6, <1>7, <1>8

(* CloseView.                                                              *)
LEMMA ExpiryView ==
  ASSUME FirmwareAssumption, FirmwareInv, NEW f \in Names, HandleExpires(f)
  PROVE  Store!CloseView(f)
<1>1. /\ handle[f] # Absent /\ handle' = [handle EXCEPT ![f] = Absent]
      /\ UNCHANGED <<upload, down, begun, settled>> /\ DOMAIN handle = Names
  BY DEF HandleExpires, FirmwareInv, Typed
<1>2. UNCHANGED <<StoreWriting, StoreAnswer, StoreReading, StoreGiven>>
  BY <1>1 DEF StoreWriting, StoreAnswer, StoreReading, StoreGiven, SoundView
<1>3. \A k \in Names : StoreView'[k] = IF k = f THEN "none" ELSE StoreView[k]
  BY <1>1 DEF StoreView, SoundView
<1>4. StoreView' = [StoreView EXCEPT ![f] = "none"] /\ StoreView[f] # "none"
  BY <1>1, <1>3 DEF StoreView
<1> QED
  BY <1>1, <1>2, <1>4 DEF Store!CloseView

(* A step of the directory is one of the store, or cannot be seen.         *)
LEMMA FirmwareStepView ==
  ASSUME FirmwareAssumption, FirmwareInv, FirmwareInv', Agreed, [FirmwareNext]_firmwareVars
  PROVE  [Store!Next]_(Store!storeVars)
<1>1. ASSUME NEW u \in Uploads, UploadStep(u)
      PROVE  Store!UploadNext(u) \/ UNCHANGED Store!storeVars
  <2>1. ASSUME NEW f \in Names, NEW i \in Images, CreateFile(u, f, i)
        PROVE  Store!UploadNext(u)
    BY <2>1, CreateView DEF Store!UploadNext
  <2>2. CASE AnswerUpload(u)
    BY <2>2, AnswerView DEF Store!UploadNext
  <2>3. CASE WriteBlock(u) \/ SaveDone(u) \/ HashBlock(u) \/ UploadFails(u)
    BY <2>3, UploadView DEF Store!UploadNext
  <2> QED
    BY <1>1, <2>1, <2>2, <2>3 DEF UploadStep
<1>2. ASSUME NEW g \in Downloads, DownloadStep(g)
      PROVE  Store!DownloadNext(g) \/ UNCHANGED Store!storeVars
  BY <1>2, OpenView, DownloadView DEF DownloadStep, Store!DownloadNext
<1>3. ASSUME NEW f \in Names, HandleExpires(f)
      PROVE  Store!Next
  BY <1>3, ExpiryView DEF Store!Next
<1>4. ASSUME UNCHANGED firmwareVars
      PROVE  UNCHANGED Store!storeVars
  BY <1>4 DEF firmwareVars, Store!storeVars, StoreWriting, StoreAnswer, StoreView,
       StoreReading, StoreGiven, SoundView
<1> QED
  BY <1>1, <1>2, <1>3, <1>4 DEF FirmwareNext, Store!Next

(* Nothing is released before the first upload.                            *)
LEMMA FirmwareInitView ==
  ASSUME FirmwareInit
  PROVE  Agreed /\ Store!Init
<1>1. /\ \A u \in Uploads : upload[u].at = "idle"
      /\ \A g \in Downloads : down[g].at = "idle"
      /\ \A f \in Names : handle[f] = Absent
      /\ settled = [f \in Names |-> Absent]
  BY DEF FirmwareInit, NoUpload, NoDownload
<1>2. StoreWriting = [u \in Uploads |-> Absent] /\ StoreAnswer = [u \in Uploads |-> Absent]
  BY <1>1 DEF StoreWriting, StoreAnswer
<1>3. StoreReading = [g \in Downloads |-> Absent] /\ StoreGiven = [g \in Downloads |-> Absent]
  BY <1>1 DEF StoreReading, StoreGiven
<1>4. StoreView = [f \in Names |-> "none"]
  BY <1>1 DEF StoreView
<1> QED
  BY <1>1, <1>2, <1>3, <1>4 DEF Agreed, Store!Init

(* UploadFile and GetFile make the directory a safe register for each      *)
(* name: what they promise is what FirmwareStore does.                     *)
THEOREM FirmwareImplementsStore == FirmwareSpec => StoreSpec
<1> USE FirmwareAssumption
<1>1. FirmwareInit => FirmwareInv /\ Agreed /\ Store!Init
  BY FirmwareInitInv, FirmwareInitView
<1>2. FirmwareInv /\ Agreed /\ [FirmwareNext]_firmwareVars
      => FirmwareInv' /\ Agreed' /\ [Store!Next]_(Store!storeVars)
  BY FirmwareNextInv, AgreedNext, FirmwareStepView
<1> QED
  BY <1>1, <1>2, PTL DEF FirmwareSpec, StoreSpec, Store!Spec
=============================================================================
