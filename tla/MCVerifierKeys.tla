--------------------------- MODULE MCVerifierKeys ---------------------------
(* A small instance of VerifierKeys for TLC. *)
EXTENDS VerifierKeys, TLC

CONSTANTS old, twin, other, x, y

\* Three keys of one id.
KidOf == [k \in Keys |-> "a"]

\* Every entry names its algorithm; the twin's is that of the first key.
AdmitsOf == [k \in Keys |-> IF k = other THEN {other} ELSE {old, twin}]

\* One of them, or two.
Published == {{old}, {twin}, {other}, {old, twin}}

OneKeyEach == [a \in Addresses |-> IF a = x THEN {old} ELSE {twin}]
=============================================================================
