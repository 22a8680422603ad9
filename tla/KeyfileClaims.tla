--------------------------- MODULE KeyfileClaims ---------------------------
(***************************************************************************)
(* What keys.rs says of the key file, and TLC refutes.                     *)
(***************************************************************************)
EXTENDS Keyfile

\* keys.rs:74, expect("Key should have been encrypted with user password").
\* The daemon uses a password that enter asked for when the file, or what was
\* attached, may have been different, and trims it.
KeysDecryptable == \A c \in Commands : at[c] # "panicked"
=============================================================================
