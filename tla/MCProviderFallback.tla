------------------------- MODULE MCProviderFallback -------------------------
(* A primary and a fallback, with three concurrent callers.                *)
EXTENDS ProviderFallback
=============================================================================
