--------------------------- MODULE MCRegistryUpload ---------------------------
(* Constants for TLC: the second edition of the index names another          *)
(* extension, and the third one no longer names the first.                   *)
EXTENDS RegistryUpload, TLC

CONSTANTS url1, url2

MCUrls == {url1, url2}
MCLinks == 0 :> {url1} @@ 1 :> {url1, url2} @@ 2 :> {url2}
=============================================================================
