----------------------------- MODULE MCUrcTable -----------------------------
(* Three identifiers for two slots.  None is a prefix of another, as in    *)
(* the library.                                                            *)
EXTENDS UrcTable

MCId == {<<"A">>, <<"B">>, <<"C">>}
MCOnMessage == <<"A">>
MCOnDisconnect == <<"B">>

ASSUME IdentifiersArePrefixFree == PrefixFree
=============================================================================
