----------------------------- MODULE LumaProperties -----------------------------
(***************************************************************************)
(* What must hold of a node's Luma calendar.                               *)
(***************************************************************************)
EXTENDS LumaCalendar

(***************************************************************************)
(* The three places that say whether an imported event can be seen agree:  *)
(* the listing of Explore looks at status and hidden, an event's own page  *)
(* at status, availability and hidden, and no order of imports, withdrawals,*)
(* edits and moderation makes them differ.                                 *)
(***************************************************************************)
PublishedIsShown ==
  \A e \in Imported :
    activity[e].status = "published" =>
      activity[e].available /\ activity[e].hidden # TRUE

(***************************************************************************)
(* Disconnecting withdraws every imported event, and "an old snapshot      *)
(* cannot restore disconnected events" (docs/discovery/luma-events.md).    *)
(***************************************************************************)
DisconnectedIsWithdrawn ==
  connection = None => \A e \in Imported : ~activity[e].available

(***************************************************************************)
(* "Moderation withdrawals remain hidden after sync": an event once hidden *)
(* stays hidden until an editor publishes it.  Disconnection writes back   *)
(* rows it read without a lock; what keeps it from undoing an unpublishing *)
(* is the reference of the moderator's history entry to the node.          *)
(***************************************************************************)
HiddenStaysHidden ==
  [][\A e \in Imported :
       activity[e].hidden = TRUE /\ activity'[e].hidden # TRUE
         => SetStatus(e, "published")]_activity

(***************************************************************************)
(* Nothing becomes visible that no editor chose to show: an import         *)
(* publishes only what had been shown before.                              *)
(***************************************************************************)
Shown(rows, e) == rows[e] # None /\ rows[e].status = "published"

ShownByChoice ==
  [][\A e \in Events :
       Shown(activity', e) /\ ~Shown(activity, e) =>
         \/ activity[e] # None /\ activity[e].hidden = FALSE
         \/ SetStatus(e, "published")]_activity

(***************************************************************************)
(* Only an editor connects a calendar: a timer that was under way does not *)
(* bring back a calendar that was disconnected or exchanged.               *)
(***************************************************************************)
ConnectedByEditor ==
  [][connection' # None
     /\ (connection = None \/ connection'.calendar # connection.calendar)
       => \E w \in Editors : Apply(w)]_connection

(***************************************************************************)
(* An import that was slow does not overwrite what a later one saved.      *)
(***************************************************************************)
SnapshotsInOrder ==
  [][\A e \in Imported :
       activity'[e].edition >= activity[e].edition]_activity

(***************************************************************************)
(* A calendar that is due is imported, or its failure recorded, although   *)
(* imports, disconnections and moderators wait for each other's locks.     *)
(***************************************************************************)
Due == connection # None /\ connection.due

DueIsServed == Due ~> ~Due
=============================================================================
