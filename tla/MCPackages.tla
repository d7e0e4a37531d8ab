----------------------------- MODULE MCPackages -----------------------------
(* A small instance of Packages for TLC. *)
EXTENDS Packages

CONSTANTS i1, i2, h1

MCIdents == {i1, i2}

\* Users remove i1; i2 is never removed.
MCRemQueries == {{i1}}

\* A REQ or RES for i2, and the empty identifier of an error RES.
MCSearchQueries == {{i2}, {i1, i2, NULL}}
=============================================================================
