----------------------------- MODULE MCBackend -----------------------------
(***************************************************************************)
(* Notifications, with the MQTT session it extends, Firmware and Listings  *)
(* for TLC.  They have little or nothing in common, so a behaviour follows *)
(* one of them, chosen at its start, and leaves the others alone:          *)
(*   "link"      one request of any kind, connections lost and restarts    *)
(*   "switches"  two requests for one device over one connection           *)
(*   "notes"     a notification of either device, and two users            *)
(*   "firmware"  two uploads and two downloads one after the other, of     *)
(*               which the first only opens the file                       *)
(*   "pages"     one walk over a listing, with records coming and going    *)
(***************************************************************************)
EXTENDS Notifications, Firmware, Listings

CONSTANTS d1, d2, r1, r2, n1, u1, u2, t1, t2, f1, a, b, c, up1, up2, g1, g2, x1, x2, x3

VARIABLE part

allVars == <<backendVars, firmwareVars, listingVars, part>>

Ask(route, d, value) == [route |-> route, device |-> d, value |-> value]

MCRoutes ==
  {Ask("mode", d1, 1), Ask("mode", d1, 0), Ask("set-stage", d1, 0), Ask("set-stage", d1, 2),
   Ask("fan", d2, 1), Ask("threshold", d1, None), Ask("threshold/admin", d1, 0),
   Ask("update-firmware", d1, 1)}

MCImages == {<<a, b>>, <<c>>}

(* The bounds of each part.                                                *)
InLink ==
  /\ req[r2].at = "idle"
  /\ epoch > 1 => req[r1].route \in {None, Ask("mode", d1, 1)}
  /\ epoch > 2 \/ refused # {} => req[r1].at = "idle"
InSwitches ==
  /\ epoch <= 1 /\ refused = {}
  /\ req[r1].route \in {None, Ask("mode", d1, 1), Ask("set-stage", d1, 2)}
  /\ req[r2].route \in {None, Ask("mode", d1, 0)}
InNotes    == epoch <= 1 /\ refused = {}
InFirmware ==
  /\ down[g2].got = <<>> /\ down[g2].at # "done"
  /\ down[g1].at # "idle" => down[g2].at \notin {"found", "read"}
  /\ upload[up1].image # <<c>> /\ upload[up2].image # <<a, b>>
InPages    == walk.at \in {"idle", "find", "count"}
InFilling  ==   \* the rows before the walk, up to a renaming of records
  LET number(i) == CHOOSE k \in 1 .. 3 : <<x1, x2, x3>>[k] = rows[i].record
  IN  walk.at = "idle" =>
        /\ "delete" \notin change
        /\ \A i \in DOMAIN rows : number(i) <= i /\ (i > 1 => number(i - 1) <= number(i))

MCInit ==
  /\ NoteInit
  /\ FirmwareInit
  /\ ListingInit
  /\ part \in {"link", "switches", "notes", "firmware", "pages"}
  /\ part \in {"firmware", "pages"} => client = "disconnected"
  /\ part # "pages" => kind = "users"

MCNext ==
  /\ UNCHANGED part
  /\ \/ /\ part \in {"link", "switches"}
        /\ SessionNext
        /\ IF part = "link" THEN InLink' ELSE InSwitches'
        /\ UNCHANGED <<noteVars, firmwareVars, listingVars>>
     \/ /\ part = "notes"
        /\ \/ LinkStep /\ UNCHANGED noteVars
           \/ Stop
           \/ UserStep
           \/ \E n \in Notes : NoteStep(n)
        /\ InNotes'
        /\ UNCHANGED <<firmwareVars, listingVars>>
     \/ /\ part = "firmware"
        /\ FirmwareNext
        /\ InFirmware'
        /\ UNCHANGED <<backendVars, listingVars>>
     \/ /\ part = "pages"
        /\ InPages
        /\ ListingNext
        /\ InFilling'
        /\ UNCHANGED <<backendVars, firmwareVars>>

MCSpec == MCInit /\ [][MCNext]_allVars /\ NoteFairness
=============================================================================
