---------------------------- MODULE FileSyncExchange ----------------------------
(***************************************************************************)
(* FileSync over MetadataExchange: the announcements on their way, the     *)
(* clock and the contents recorded, as the metadata plane sees them.       *)
(***************************************************************************)
EXTENDS FileSync

(* The rows follow the metadata plane: every step of the coordinator is one of
   MetadataExchange's, whatever happens to the content.                       *)
Announced ==
  {[from |-> m.from, to |-> m.to, row |-> m.row] : m \in {x \in msgs : x.type = "meta"}}
Exchange == INSTANCE MetadataExchange WITH
  msgs <- Announced,
  now <- Now,
  written <- Recorded,
  warned <- warned # {},
  MaxTime <- MaxEdits,
  MaxFlight <- 0
FollowsExchange == Exchange!Spec
=============================================================================
