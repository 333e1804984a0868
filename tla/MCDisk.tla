------------------------------- MODULE MCDisk -------------------------------
(* Three parts that put the file together: the volume, the journal and the *)
(* chains of pages.  A behaviour is about one of them, chosen at the start, *)
(* so that their states add up instead of multiplying.                     *)
EXTENDS Volume, MCWal, Chains

VARIABLE part

diskVars == <<part, volumeVars, walVars, chainVars>>

DiskInit ==
  /\ part \in {"volume", "log", "chain"}
  /\ Init /\ WalInit /\ ChainInit

DiskNext ==
  /\ UNCHANGED part
  /\ \/ part = "volume" /\ PowerNext /\ UNCHANGED <<walVars, chainVars>>
     \/ part = "log" /\ WalNext /\ UNCHANGED <<volumeVars, chainVars>>
     \/ part = "chain" /\ ChainNext /\ UNCHANGED <<volumeVars, walVars>>

DiskSpec == DiskInit /\ [][DiskNext]_diskVars
=============================================================================
