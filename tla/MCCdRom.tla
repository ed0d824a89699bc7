------------------------------ MODULE MCCdRom ------------------------------
(* CdRom with one drive of each sort that the loader tells apart. *)
EXTENDS CdRom

Drive(v, r, n) == [version |-> v, region |-> r, name |-> n]

MCDrives == {
    Drive("later", "for Europe", "(Europe)"),
    Drive("C2/C3", "for U/C", "of America"),
    Drive("later", "for NETEU", "World wide"),
    Drive("95-C1", "for Japan", "none"),
    Drive("C2/C3", "for Japan", "none"),
    Drive("94", "for Japan", "none"),
    Drive("later", "other", "none"),
    Drive("later", "for U/C", "none")}
=============================================================================
