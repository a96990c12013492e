--------------------------- MODULE MCTlsReloader ----------------------------
(* TlsReloader with two certificates, the second for either key.           *)
EXTENDS TlsReloader

CONSTANTS h1, h2, a, b

Either == {<<a, a>>, <<b, b>>, <<b, a>>}
=============================================================================
