----------------------------- MODULE LeadIntake -----------------------------
(***************************************************************************)
(* Leads: how they come in (api/leads, lib/production/leads.ts,            *)
(* recordLead() of ops.js), where they are kept (lib/engagement-store.ts), *)
(* and how one becomes an engagement (api/leads/convert).  Calls beyond    *)
(* the rate limit are refused before anything is done (RateLimit).         *)
(*                                                                         *)
(* A lead is a row of a table, or, when its insertion failed, a file of    *)
(* the instance.  An instance copies the rows to files once, before its    *)
(* first use of the files; files go to the table only after a failed       *)
(* insertion.  A conversion holds the lead that it read across an import,  *)
(* and then saves it.  One instance, which may be restarted; its files are *)
(* then gone if they were in temporary storage.                            *)
(***************************************************************************)
EXTENDS Naturals, Sequences

CONSTANTS
    Leads,         \* ids of leads
    Storages,      \* where the files may be: "tmp" or "disk"
    Conversions,   \* conversions that can be under way
    MaxMade,       \* bound on the engagements made
    MaxRestarts    \* bound on the restarts

ASSUME LeadsAssumption ==
    /\ Storages \subseteq {"tmp", "disk"}
    /\ MaxMade \in Nat
    /\ MaxRestarts \in Nat

VARIABLES
    storage,     \* where the files are
    file,        \* the leads in the files
    table,       \* the leads in the table
    hydration,   \* whether the rows have been copied to files
    mirrors,     \* the upserts under way: the files that each one read
    converting,  \* the conversions under way
    made,        \* history: the lead that each engagement was made from, if any
    done,        \* history: the leads converted since the files were last lost
    restarts

leadVars == <<storage, file, table, hydration, mirrors, converting, made, done, restarts>>

NoLead == [status |-> "none", eng |-> 0]
NewLead == [status |-> "new", eng |-> 0]
Converted(n) == [status |-> "converted", eng |-> n]

Lead == {NoLead, NewLead} \cup {Converted(n) : n \in 1 .. MaxMade}

Nowhere == [l \in Leads |-> NoLead]

Made == DOMAIN made

-----------------------------------------------------------------------------
(* engagement-store.ts                                                     *)

\* hydrateLeads(), which every use of the files awaits: the rows are selected, ..
Select ==
    /\ hydration.at = "cold"
    /\ hydration' = [at |-> "selected", rows |-> table]
    /\ UNCHANGED <<storage, file, table, mirrors, converting, made, done, restarts>>

\* Mutant: the rows are written over the files that there are.
FilledOver(rows) == [l \in Leads |-> IF rows[l] = NoLead THEN file[l] ELSE rows[l]]

\* The files after the rows have been copied, where there was no file.
Filled(rows) == [l \in Leads |-> IF file[l] = NoLead THEN rows[l] ELSE file[l]]

\* .. and copied; a failure counts as done.
Hydrate ==
    /\ hydration.at = "selected"
    /\ file' \in {Filled(hydration.rows), file}
    /\ hydration' = [at |-> "warm", rows |-> Nowhere]
    /\ UNCHANGED <<storage, table, mirrors, converting, made, done, restarts>>

\* mirrorLeads(): all files are upserted, ..
MirrorLands(rows) ==
    /\ table' = [l \in Leads |-> IF rows[l] = NoLead THEN table[l] ELSE rows[l]]
    /\ mirrors' = mirrors \ {rows}
    /\ UNCHANGED <<storage, file, hydration, converting, made, done, restarts>>

\* .. which nobody awaits, and whose failure is only logged.
MirrorFails(rows) ==
    /\ mirrors' = mirrors \ {rows}
    /\ UNCHANGED <<storage, file, table, hydration, converting, made, done, restarts>>

-----------------------------------------------------------------------------
(* api/leads                                                               *)

\* Ids are random.
Unused(l) ==
    /\ file[l] = NoLead /\ table[l] = NoLead
    /\ \A rows \in mirrors : rows[l] = NoLead
    /\ \A n \in Made : made[n] # l

\* The consultation that a request may ask for at once; it does not name the lead.
MayDiscover ==
    \/ UNCHANGED made
    \/ /\ hydration.at = "warm" /\ Len(made) < MaxMade
       /\ made' = Append(made, 0)

\* createLead(): the row is inserted.
Insert(l) ==
    /\ Unused(l)
    /\ table' = [table EXCEPT ![l] = NewLead]
    /\ MayDiscover
    /\ UNCHANGED <<storage, file, hydration, mirrors, converting, done, restarts>>

\* The insertion fails, or has been done with the answer lost: recordLead() saves the
\* lead with an id of its own, and all the files are mirrored.
RecordLead(l) ==
    /\ Unused(l)
    /\ hydration.at = "warm"
    /\ \/ UNCHANGED table
       \/ \E k \in Leads \ {l} : Unused(k) /\ table' = [table EXCEPT ![k] = NewLead]
    /\ file' = [file EXCEPT ![l] = NewLead]
    /\ mirrors' = mirrors \cup {file'}
    /\ MayDiscover
    /\ UNCHANGED <<storage, hydration, converting, done, restarts>>

-----------------------------------------------------------------------------
(* api/leads/convert                                                       *)

\* The engagement is made from the lead that the files have, whatever its status, and
\* the store imported.
ConvertLead(c, l) ==
    /\ converting[c] = <<>>
    /\ hydration.at = "warm" /\ file[l] # NoLead
    /\ Len(made) < MaxMade
    /\ made' = Append(made, l)
    /\ converting' = [converting EXCEPT ![c] = <<l, Len(made')>>]
    /\ UNCHANGED <<storage, file, table, hydration, mirrors, done, restarts>>

\* The lead is saved as converted.
MarkConverted(c) ==
    /\ converting[c] # <<>>
    /\ file' = [file EXCEPT ![converting[c][1]] = Converted(converting[c][2])]
    /\ done' = done \cup {converting[c][1]}
    /\ converting' = [converting EXCEPT ![c] = <<>>]
    /\ UNCHANGED <<storage, table, hydration, mirrors, made, restarts>>

\* The import or the save fails, which is not fatal.
NotMarked(c) ==
    /\ converting[c] # <<>>
    /\ converting' = [converting EXCEPT ![c] = <<>>]
    /\ UNCHANGED <<storage, file, table, hydration, mirrors, made, done, restarts>>

\* The instance is restarted; an upsert may be on its way.
Restart ==
    /\ restarts < MaxRestarts /\ restarts' = restarts + 1
    /\ file' = IF storage = "tmp" THEN Nowhere ELSE file
    /\ done' = IF storage = "tmp" THEN {} ELSE done
    /\ hydration' = [at |-> "cold", rows |-> Nowhere]
    /\ converting' = [c \in Conversions |-> <<>>]
    /\ UNCHANGED <<storage, table, mirrors, made>>

LeadsInit ==
    /\ storage \in Storages
    /\ file = Nowhere /\ table = Nowhere /\ mirrors = {}
    /\ hydration = [at |-> "cold", rows |-> Nowhere]
    /\ converting = [c \in Conversions |-> <<>>]
    /\ made = <<>> /\ done = {}
    /\ restarts = 0

LeadsNext ==
    \/ Select \/ Hydrate \/ Restart
    \/ \E rows \in mirrors : MirrorLands(rows) \/ MirrorFails(rows)
    \/ \E l \in Leads : Insert(l) \/ RecordLead(l)
    \/ \E c \in Conversions :
           MarkConverted(c) \/ NotMarked(c) \/ \E l \in Leads : ConvertLead(c, l)

LeadsSpec == LeadsInit /\ [][LeadsNext]_leadVars

-----------------------------------------------------------------------------

LeadsTypeOK ==
    /\ storage \in Storages
    /\ file \in [Leads -> Lead] /\ table \in [Leads -> Lead]
    /\ hydration \in [at : {"cold", "selected", "warm"}, rows : [Leads -> Lead]]
    /\ mirrors \subseteq [Leads -> Lead]
    /\ \A c \in Conversions : converting[c] # <<>> => converting[c] \in Leads \X Made
    /\ \A n \in Made : made[n] \in Leads \cup {0}
    /\ done \subseteq Leads
    /\ restarts \in 0 .. MaxRestarts

\* The copies of the leads, in the files, in the table and on their way.
LeadCopies == {file, table, hydration.rows} \cup mirrors

\* However conversions overlap, insertions fail and old copies are written: a lead that
\* was converted stays so as long as the files live; a copy that says converted names
\* an engagement that was made from that very lead, which the two conversions of one
\* lead may not agree on.
LeadsHold ==
    /\ \A l \in done : file[l].status = "converted"
    /\ \A copy \in LeadCopies, l \in Leads :
           copy[l].status = "converted" => copy[l].eng \in Made /\ made[copy[l].eng] = l

=============================================================================
