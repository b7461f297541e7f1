--------------------------- MODULE FirmwareStore ---------------------------
(***************************************************************************)
(* What the firmware directory promises: a safe register for each name.    *)
(* An upload that no other of its name overlaps releases its image and is  *)
(* answered for it; a download of a name that has a release, until the     *)
(* next upload begins, gives the release.  An overlapped upload may be     *)
(* answered for any content, and a download that meets an upload, or a     *)
(* view of the file from before the release, may give any content.         *)
(* No blocks, no offsets, no lengths.                                      *)
(***************************************************************************)
CONSTANTS Names, Images, Uploads, Downloads, Contents, Absent

VARIABLES
  release,    \* release[f]: the image that is out under the name f, or Absent
  writing,    \* writing[u]: the upload under way (sole: no other has met it), or Absent
  answer,     \* answer[u]: the content the upload u is answered for, or Absent
  view,       \* view[f]: how f is held open for downloads: "none", "sound" or "stale"
  reading,    \* reading[g]: the download under way (sound: it gives the release), or Absent
  given       \* given[g]: the content the download g has given, or Absent

storeVars == <<release, writing, answer, view, reading, given>>

Init ==
  /\ release = [f \in Names |-> Absent]
  /\ writing = [u \in Uploads |-> Absent]
  /\ answer  = [u \in Uploads |-> Absent]
  /\ view    = [f \in Names |-> "none"]
  /\ reading = [g \in Downloads |-> Absent]
  /\ given   = [g \in Downloads |-> Absent]

WritingTo(u, f) == writing[u] # Absent /\ writing[u].name = f
ReadingOf(g, f) == reading[g] # Absent /\ reading[g].name = f

(* An upload begins: it takes the release back, and whoever is at the name *)
(* cannot rely on it any more.                                             *)
Begin(u, f, i) ==
  /\ writing[u] = Absent /\ answer[u] = Absent
  /\ release' = [release EXCEPT ![f] = Absent]
  /\ writing' = [v \in Uploads |->
       IF v = u THEN [name |-> f, image |-> i, sole |-> \A w \in Uploads : ~WritingTo(w, f)]
       ELSE IF WritingTo(v, f) THEN [name |-> f, image |-> writing[v].image, sole |-> FALSE]
       ELSE writing[v]]
  /\ view' = [view EXCEPT ![f] = IF @ = "none" THEN "none" ELSE "stale"]
  /\ reading' = [g \in Downloads |->
       IF ReadingOf(g, f) THEN [name |-> f, sound |-> FALSE] ELSE reading[g]]
  /\ UNCHANGED <<answer, given>>

(* The upload has met no other: its image is released and answered for.    *)
Release(u) ==
  /\ writing[u] # Absent /\ writing[u].sole
  /\ release' = [release EXCEPT ![writing[u].name] = writing[u].image]
  /\ answer' = [answer EXCEPT ![u] = writing[u].image]
  /\ writing' = [writing EXCEPT ![u] = Absent]
  /\ UNCHANGED <<view, reading, given>>

(* It has met another, and is answered for whatever the file is then.      *)
AnswerOverlapped(u) ==
  /\ writing[u] # Absent /\ ~writing[u].sole
  /\ answer' = [answer EXCEPT ![u] = answer'[u]] /\ answer'[u] \in Contents
  /\ writing' = [writing EXCEPT ![u] = Absent]
  /\ UNCHANGED <<release, view, reading, given>>

(* It fails, and nothing is released.                                      *)
GiveUp(u) ==
  /\ writing[u] # Absent
  /\ writing' = [writing EXCEPT ![u] = Absent]
  /\ UNCHANGED <<release, answer, view, reading, given>>

(* A download takes the view there is, or makes one.                       *)
Fetch(g, f) ==
  /\ reading[g] = Absent /\ given[g] = Absent
  /\ LET sound == IF view[f] = "none" THEN release[f] # Absent ELSE view[f] = "sound"
     IN /\ view' = [view EXCEPT ![f] = IF sound THEN "sound" ELSE "stale"]
        /\ reading' = [reading EXCEPT ![g] = [name |-> f, sound |-> sound]]
  /\ UNCHANGED <<release, writing, answer, given>>

CloseView(f) ==
  /\ view[f] # "none"
  /\ view' = [view EXCEPT ![f] = "none"]
  /\ UNCHANGED <<release, writing, answer, reading, given>>

Give(g) ==
  /\ reading[g] # Absent
  /\ given' = [given EXCEPT ![g] = given'[g]] /\ given'[g] \in Contents
  /\ reading[g].sound => given'[g] = release[reading[g].name]
  /\ reading' = [reading EXCEPT ![g] = Absent]
  /\ UNCHANGED <<release, writing, answer, view>>

BreakOff(g) ==
  /\ reading[g] # Absent
  /\ reading' = [reading EXCEPT ![g] = Absent]
  /\ UNCHANGED <<release, writing, answer, view, given>>

UploadNext(u) ==
  \/ \E f \in Names, i \in Images : Begin(u, f, i)
  \/ Release(u) \/ AnswerOverlapped(u) \/ GiveUp(u)

DownloadNext(g) == (\E f \in Names : Fetch(g, f)) \/ Give(g) \/ BreakOff(g)

Next ==
  \/ \E u \in Uploads : UploadNext(u)
  \/ \E g \in Downloads : DownloadNext(g)
  \/ \E f \in Names : CloseView(f)

Spec == Init /\ [][Next]_storeVars
=============================================================================
