--------------------------- MODULE MCPersonAccess ---------------------------
(***************************************************************************)
(* Three records of persons, all with a role; one is of an external and    *)
(* has a login.  The other login is new.                                   *)
(***************************************************************************)
EXTENDS PersonAccess, PersonRules

CONSTANTS p1, p2, p3, u1, u2

OneOwned == [u \in User |-> IF u = u1 THEN p1 ELSE Nobody]

AllHold == [p \in Person |-> Role]
=============================================================================
