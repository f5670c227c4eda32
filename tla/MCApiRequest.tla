----------------------------- MODULE MCApiRequest ------------------------------
(***************************************************************************)
(* TLC instance of the request: every kind of it, signatures with every    *)
(* special character of base64, a key that is wrong and one that is empty. *)
(***************************************************************************)
EXTENDS ApiRequest

Hyphen == 45
MCAccessKeys == {<<>>, <<97, Hyphen, 48>>}
MCTheSecretKey == <<98>>
MCSecretKeys == {<<>>, <<98>>, <<99>>}
MCTimes == {[hour |-> <<49>>, minute |-> <<50>>, second |-> <<51>>]}
MCClientIds == {<<97, Hyphen, 98>>}
MCCodes == {<<65, 43, 61>>, <<47, 122, 61>>}  \* A+=, /z=

=============================================================================
