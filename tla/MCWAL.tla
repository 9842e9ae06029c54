------------------------------- MODULE MCWAL -------------------------------
(* Small instances of WAL for TLC: the bound is a constant of the cfg, the  *)
(* storages are these.                                                     *)
EXTENDS WAL

PayloadCut  == [tears |-> {"payload"}, shorts |-> {}]
HeaderCut   == [tears |-> {"header", "payload"}, shorts |-> {}]
BareHeader  == [tears |-> {"bare", "payload"}, shorts |-> {}]
AnythingCut == [tears |-> {"header", "bare", "payload"}, shorts |-> {"header", "bare", "payload"}]

GoodAndBad == {PayloadCut, AnythingCut}
OnlyHeader == {HeaderCut}
OnlyBare   == {BareHeader}
=============================================================================
