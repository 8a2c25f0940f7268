---------------------------- MODULE BlockLayout ----------------------------
(***************************************************************************)
(* Where blocks live in an OidaDB volume.  The file is a run of groups;    *)
(* each group is one descriptor (meta) page followed by BlocksPerGroup     *)
(* data pages (1023 of them in the code).  All offsets are page offsets.   *)
(***************************************************************************)
EXTENDS Naturals

CONSTANT BlocksPerGroup   \* ODB_SPEC_BLOCKS_PER_GROUP, 1023 in the code

ASSUME BlocksPerGroupAssumption == BlocksPerGroup \in Nat \ {0}

\* ODB_SPEC_METAPAGES_PER_GROUP is 1.
PagesPerGroup == BlocksPerGroup + 1

\* The page that holds block bid.
bid2pid(bid) ==
    (bid \div BlocksPerGroup) * PagesPerGroup + (bid % BlocksPerGroup) + 1

\* The group that holds block bid.
bid2gid(bid) == bid \div BlocksPerGroup

\* The descriptor page of group gid.
gid2pid(gid) == gid * PagesPerGroup

\* The number of group descriptors that blockc blocks from block_start touch.
descriptor_buffer_needed(block_start, blockc) ==
    bid2gid(block_start + blockc - 1) - bid2gid(block_start) + 1
=============================================================================
