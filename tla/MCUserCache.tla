---------------------------- MODULE MCUserCache ----------------------------
(***************************************************************************)
(* UserCache for TLC: a call of UpdateUser that changes the password       *)
(* (changePass), one that changes the name, and one that changes both back.*)
(***************************************************************************)
EXTENDS UserCache, TLC

CONSTANTS n1, n2, p1, p2, changePass, changeName, changeBack, r1, r2, l1

MCFirstUser  == [name |-> n1, pass |-> p1]
MCNameOf     == [u \in Updates |-> IF u = changeName THEN n2
                                   ELSE IF u = changeBack THEN n1 ELSE None]
MCPasswordOf == [u \in Updates |-> IF u = changePass THEN p2
                                   ELSE IF u = changeBack THEN p1 ELSE None]
=============================================================================
