------------------------------ MODULE MCWebPages ------------------------------
(***************************************************************************)
(* Small instances of RequestsPage and PagedList for TLC.  One page is     *)
(* mounted at a time, and the other stays as it starts.                    *)
(***************************************************************************)
EXTENDS RequestsPageProperties, PagedListProperties

VARIABLE mounted

MCInputs == [payer |-> {"rahim"}, amount |-> {"500"}, note |-> {"rent"}]

MCMatching ==
  [activity |-> [all |-> Rows, transfer |-> {1, 2, 4}],
   notifications |-> [all |-> Rows, unread |-> Rows],
   people |-> [all |-> {}, ra |-> Rows, rahim |-> {1, 3, 4}]]

\* What the requests page is explored for: every way to fill in, submit, cancel
\* and retry the form, or every way its decisions and its loads may interleave.
ForTheForm ==
  /\ token <= 2 /\ acting = Nothing
  /\ \A r \in MoneyRequests : status[r] \in {"absent", "PENDING"} /\ (r \in Incoming => status[r] = "absent")
  /\ \A load \in loads : load.incoming = Nothing
ForTheList ==
  edits <= 2 /\ form["note"] = Nothing /\ Len(posts) <= 2

ForNotifications == epoch <= 2

MCInit ==
  /\ RequestsInit /\ ListInit
  /\ mounted \in {"form", "requests", "list"}
  /\ mounted # "list" => view = "activity" /\ visible = {}

MCNext ==
  /\ \/ mounted # "list" /\ RequestsNext /\ UNCHANGED listVars
     \/ mounted = "list" /\ ListNext /\ UNCHANGED requestsVars
  /\ UNCHANGED mounted
  /\ CASE mounted = "form" -> ForTheForm'
       [] mounted = "requests" -> ForTheList'
       [] mounted = "list" -> view = "notifications" => ForNotifications'

MCSpec == MCInit /\ [][MCNext]_<<requestsVars, listVars, mounted>>
===============================================================================
