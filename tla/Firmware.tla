------------------------------ MODULE Firmware ------------------------------
(***************************************************************************)
(* The firmware directory (controller/ota.go): UploadFile writes the file  *)
(* and reads it back for its hash, GetFile sends it to devices.            *)
(*                                                                         *)
(* An upload is small enough to lie in memory, so SaveFile creates the     *)
(* file, which empties an old one in place, and copies block by block;     *)
(* each open file has its own offset, and a block written behind the end   *)
(* of the file leaves a hole.  A hash is told apart from that of every     *)
(* other content, so it is named by the content.  To send a file the       *)
(* framework opens it once and keeps it open for the downloads of the next *)
(* seconds, with the length it had then.                                   *)
(***************************************************************************)
EXTENDS Naturals, Sequences

CONSTANTS
  Names,      \* file names
  Blocks,     \* blocks of a file
  Hole,       \* a block nobody has written
  Images,     \* what is uploaded: sequences of blocks
  Uploads,    \* slots for requests to UploadFile
  Downloads,  \* slots for requests to GetFile
  Absent      \* no such file, nothing open, nothing certain

Contents == Seq(Blocks \cup {Hole})

(* A file the framework holds open: the length it announces, and, for the  *)
(* properties, what was settled of the file and how many uploads of it had *)
(* begun when it was opened.                                               *)
Opened == [len : Nat, hash : Contents \cup {Absent}, turn : Nat]

(* What FirmwareStore tells of an upload and of a download under way.      *)
Writings == [name : Names, image : Images, sole : BOOLEAN]
Readings == [name : Names, sound : BOOLEAN]

ASSUME FirmwareAssumption ==
  /\ Images \subseteq Seq(Blocks)
  /\ Hole \notin Blocks
  /\ Absent \notin Contents \cup Opened \cup Writings \cup Readings

VARIABLES
  file,     \* file[f]: the content of the file in the directory, or Absent
  handle,   \* handle[f]: the file as the framework holds it open, or Absent
  upload,   \* upload[u]: where UploadFile stands
  down,     \* down[g]: where GetFile stands
  begun,    \* begun[f], for the properties: how many uploads of f have begun
  settled   \* settled[f], likewise: the hash answered by the last upload of
            \* f, when none other was under way with it; otherwise Absent

firmwareVars == <<file, handle, upload, down, begun, settled>>

(* turn: the number of the upload, 0 when another was under way at its     *)
(* begin; alone: whether, once answered, none had begun meanwhile.         *)
NoUpload == [at |-> "idle", name |-> Absent, image |-> <<>>, done |-> 0,
             hash |-> <<>>, turn |-> 0, alone |-> FALSE]

(* open: the handle the download reads from; sure: at its end, the hash    *)
(* that was settled all the time since that handle was made.               *)
NoDownload == [at |-> "idle", name |-> Absent, open |-> Absent, got |-> <<>>, sure |-> Absent]

FirmwareInit ==
  /\ file    = [f \in Names |-> Absent]
  /\ handle  = [f \in Names |-> Absent]
  /\ upload  = [u \in Uploads |-> NoUpload]
  /\ down    = [g \in Downloads |-> NoDownload]
  /\ begun   = [f \in Names |-> 0]
  /\ settled = [f \in Names |-> Absent]

-----------------------------------------------------------------------------
(* UploadFile.                                                             *)

Saving(u, f) == upload[u].at \in {"write", "hash"} /\ upload[u].name = f

CreateTo(u, f, i, content) ==
  /\ upload[u].at = "idle"
  /\ file' = [file EXCEPT ![f] = content]
  /\ begun' = [begun EXCEPT ![f] = @ + 1]
  /\ settled' = [settled EXCEPT ![f] = Absent]
  /\ upload' = [upload EXCEPT ![u] =
       [at |-> "write", name |-> f, image |-> i, done |-> 0, hash |-> <<>>, alone |-> FALSE,
        turn |-> IF \E v \in Uploads : Saving(v, f) THEN 0 ELSE begun[f] + 1]]
  /\ UNCHANGED <<handle, down>>

CreateInPlace(u, f, i) ==   \* slip: the file is opened for writing, not emptied
  CreateTo(u, f, i, IF file[f] = Absent THEN <<>> ELSE file[f])

(* SaveFile begins with os.Create.                                         *)
CreateFile(u, f, i) == CreateTo(u, f, i, <<>>)

(* The content with the block b at position k.                             *)
Put(content, k, b) ==
  [j \in 1 .. (IF k > Len(content) THEN k ELSE Len(content)) |->
     IF j = k THEN b ELSE IF j <= Len(content) THEN content[j] ELSE Hole]

(* Its copy loop.                                                          *)
WriteBlock(u) ==
  /\ upload[u].at = "write"
  /\ upload[u].done < Len(upload[u].image)
  /\ LET k == upload[u].done + 1
     IN file' = [file EXCEPT ![upload[u].name] = Put(@, k, upload[u].image[k])]
  /\ upload' = [upload EXCEPT ![u].done = @ + 1]
  /\ UNCHANGED <<handle, down, begun, settled>>

SaveDoneOrNot(u) ==   \* slip: the error of SaveFile is not looked at
  /\ upload[u].at = "write"
  /\ upload' = [upload EXCEPT ![u].at = "hash"]
  /\ UNCHANGED <<file, handle, down, begun, settled>>

(* All is written: getSHA256 opens the file.                               *)
SaveDone(u) ==
  /\ upload[u].at = "write"
  /\ upload[u].done = Len(upload[u].image)
  /\ upload' = [upload EXCEPT ![u].at = "hash"]
  /\ UNCHANGED <<file, handle, down, begun, settled>>

(* SaveFile or getSHA256 fails; what is written remains.                   *)
UploadFails(u) ==
  /\ upload[u].at \in {"write", "hash"}
  /\ upload' = [upload EXCEPT ![u] = [NoUpload EXCEPT !.at = "failed"]]
  /\ UNCHANGED <<file, handle, down, begun, settled>>

(* getSHA256 reads on from where it is, as long as there is something.     *)
HashBlock(u) ==
  /\ upload[u].at = "hash"
  /\ LET content == file[upload[u].name]
         k == Len(upload[u].hash) + 1
     IN /\ k <= Len(content)
        /\ upload' = [upload EXCEPT ![u].hash = Append(@, content[k])]
  /\ UNCHANGED <<file, handle, down, begun, settled>>

AnswerWith(u, hash) ==
  LET f == upload[u].name
      alone == upload[u].turn = begun[f]
  IN /\ upload' = [upload EXCEPT ![u].at = "answered", ![u].hash = hash, ![u].alone = alone]
     /\ settled' = [settled EXCEPT ![f] = IF alone THEN hash ELSE @]
     /\ UNCHANGED <<file, handle, down, begun>>

AnswerUnsaved(u) ==   \* slip: the hash is of the request, and the file saved by the way
  /\ upload[u].at \in {"write", "hash"}
  /\ AnswerWith(u, upload[u].image)

AnswerFirstBlock(u) ==   \* slip: one Read instead of io.Copy
  /\ upload[u].at = "hash"
  /\ Len(upload[u].hash) = 1
  /\ AnswerWith(u, upload[u].hash)

(* At the end of the file: the answer has the name, the size and the hash. *)
AnswerUpload(u) ==
  /\ upload[u].at = "hash"
  /\ Len(upload[u].hash) >= Len(file[upload[u].name])
  /\ AnswerWith(u, upload[u].hash)

-----------------------------------------------------------------------------
(* GetFile.                                                                *)

StatFile(g, f) ==
  /\ down[g].at = "idle"
  /\ down' = [down EXCEPT ![g].at = IF file[f] = Absent THEN "missing" ELSE "found",
                          ![g].name = f]
  /\ UNCHANGED <<file, handle, upload, begun, settled>>

(* c.Download: the framework has the file open, or opens it.               *)
OpenFile(g) ==
  /\ down[g].at = "found"
  /\ LET f == down[g].name
         open == IF handle[f] # Absent THEN handle[f]
                 ELSE [len |-> Len(file[f]), hash |-> settled[f], turn |-> begun[f]]
     IN /\ handle' = [handle EXCEPT ![f] = open]
        /\ down' = [down EXCEPT ![g].at = "read", ![g].open = open]
  /\ UNCHANGED <<file, upload, begun, settled>>

(* It closes the file some seconds later.                                  *)
HandleExpires(f) ==
  /\ handle[f] # Absent
  /\ handle' = [handle EXCEPT ![f] = Absent]
  /\ UNCHANGED <<file, upload, down, begun, settled>>

(* The response is read from the file as it then is ...                    *)
ReadBlock(g) ==
  /\ down[g].at = "read"
  /\ LET content == file[down[g].name]
         k == Len(down[g].got) + 1
     IN /\ k <= down[g].open.len
        /\ k <= Len(content)
        /\ down' = [down EXCEPT ![g].got = Append(@, content[k])]
  /\ UNCHANGED <<file, handle, upload, begun, settled>>

(* ... up to the length it was announced with ...                          *)
ReadDone(g) ==
  /\ down[g].at = "read"
  /\ Len(down[g].got) = down[g].open.len
  /\ down' = [down EXCEPT ![g].at = "done",
       ![g].sure = IF down[g].open.turn = begun[down[g].name] THEN down[g].open.hash ELSE Absent]
  /\ UNCHANGED <<file, handle, upload, begun, settled>>

(* ... or breaks off: the file has got shorter, or the peer has left.      *)
ReadBreaks(g) ==
  /\ down[g].at = "read"
  /\ down' = [down EXCEPT ![g] = [NoDownload EXCEPT !.at = "broken"]]
  /\ UNCHANGED <<file, handle, upload, begun, settled>>

-----------------------------------------------------------------------------
UploadStep(u) ==
  \/ \E f \in Names, i \in Images : CreateFile(u, f, i)
  \/ WriteBlock(u) \/ SaveDone(u) \/ UploadFails(u) \/ HashBlock(u) \/ AnswerUpload(u)

DownloadStep(g) ==
  \/ \E f \in Names : StatFile(g, f)
  \/ OpenFile(g) \/ ReadBlock(g) \/ ReadDone(g) \/ ReadBreaks(g)

FirmwareNext ==
  \/ \E u \in Uploads : UploadStep(u)
  \/ \E g \in Downloads : DownloadStep(g)
  \/ \E f \in Names : HandleExpires(f)

FirmwareSpec == FirmwareInit /\ [][FirmwareNext]_firmwareVars

-----------------------------------------------------------------------------
(* Properties.                                                             *)

(* The variables hold values of their types; UploadFile answers only when  *)
(* SaveFile has written the whole image.                                   *)
FirmwareTypeOK ==
  /\ \A f \in Names : file[f] \in Contents \cup {Absent} /\ begun[f] \in Nat
  /\ \A u \in Uploads :
       /\ upload[u].at \in {"idle", "write", "hash", "answered", "failed"}
       /\ upload[u].at \notin {"idle", "failed"} => upload[u].name \in Names /\ upload[u].image \in Images
       /\ upload[u].done \in 0 .. Len(upload[u].image)
       /\ upload[u].at \in {"hash", "answered"} => upload[u].done = Len(upload[u].image)
       /\ upload[u].hash \in Contents
  /\ \A g \in Downloads :
       /\ down[g].at \in {"idle", "missing", "found", "read", "done", "broken"}
       /\ down[g].got \in Contents

(* The hash in the answer of UploadFile, computed over the file, is that   *)
(* of what was uploaded, whatever the file held before, unless another     *)
(* upload of the name was under way at the same time.                      *)
AnswerIsTrue ==
  \A u \in Uploads :
    upload[u].at = "answered" /\ upload[u].alone => upload[u].hash = upload[u].image

(* A device that is told this hash and downloads the file gets content     *)
(* with the hash, as long as no other upload of the name begins before the *)
(* download is over and the framework has not opened the file before the   *)
(* answer.                                                                 *)
DownloadMatchesAnswer ==
  \A g \in Downloads :
    down[g].at = "done" /\ down[g].sure # Absent => down[g].got = down[g].sure

(* What FirmwareStore sees: an upload from its creation of the file to its *)
(* answer, a download from the opening of the file to its end, and whether *)
(* they have met an upload, or only a view from before the release.        *)
SoundView(f, o) == o.hash # Absent /\ o.turn = begun[f]

StoreWriting ==
  [u \in Uploads |->
     IF upload[u].at \in {"write", "hash"}
     THEN [name |-> upload[u].name, image |-> upload[u].image,
           sole |-> upload[u].turn = begun[upload[u].name]]
     ELSE Absent]
StoreAnswer == [u \in Uploads |-> IF upload[u].at = "answered" THEN upload[u].hash ELSE Absent]
StoreView   == [f \in Names |-> IF handle[f] = Absent THEN "none"
                                ELSE IF SoundView(f, handle[f]) THEN "sound" ELSE "stale"]
StoreReading ==
  [g \in Downloads |->
     IF down[g].at = "read"
     THEN [name |-> down[g].name, sound |-> SoundView(down[g].name, down[g].open)]
     ELSE Absent]
StoreGiven  == [g \in Downloads |-> IF down[g].at = "done" THEN down[g].got ELSE Absent]

(* The directory keeps the promise of FirmwareStore: UploadFile and        *)
(* GetFile, which write and read block by block, look like those of a safe *)
(* register.                                                               *)
Store == INSTANCE FirmwareStore WITH
  release <- settled, writing <- StoreWriting, answer <- StoreAnswer,
  view <- StoreView, reading <- StoreReading, given <- StoreGiven

StoreSpec == Store!Spec

=============================================================================
