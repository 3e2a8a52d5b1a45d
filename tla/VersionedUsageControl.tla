------------------------- MODULE VersionedUsageControl -------------------------
(***************************************************************************)
(* The Durable Object that is deployed (packages/cloudflare/src/           *)
(* versioned-worker.ts): its database is checked, created or migrated when *)
(* it is constructed, and only a constructed object takes calls.  A        *)
(* database that was written before versions were recorded, or before      *)
(* growth was supported, may hold reservations that have no growth cursor. *)
(***************************************************************************)
EXTENDS CloudflareUsageStore, CloudflareUsageSchema

objectVars == <<vars, schemaVars>>

(* What such a database holds: here, nothing or one scalar reservation.    *)
HoldsReservations(db) == db.version \in {0, 1} /\ HasTables(db, V1Tables)

AdoptedRow(state, charge, ttl) ==
  [NoReservation EXCEPT !.state = state, !.budgetIds = charge.keys,
                        !.reserved = charge.units, !.expiresAt = ttl]

AdoptedInit ==
  /\ HoldsReservations(database)
  /\ \E op \in Operations, charge \in {c \in Charges : c.mode = "scalar"},
        ttl \in Ttls, state \in {"pending", "liable"} :
       /\ budgets = charge.keys
       /\ used = charge.units
       /\ reservations = [o \in Operations |->
            IF o # op THEN NoReservation ELSE AdoptedRow(state, charge, ttl)]
       /\ growthRows = [o \in Operations |-> NoGrowthRow]
       /\ vectorRows = [o \in Operations |-> NoVectorRow]
       /\ now = 0
       /\ spent = NoUnits

ObjectInit == SchemaInit /\ (Init \/ AdoptedInit)

ObjectNext ==
  \/ SchemaNext /\ UNCHANGED vars
  \/ phase = "up" /\ Next /\ UNCHANGED schemaVars

ObjectSpec == ObjectInit /\ [][ObjectNext]_objectVars
=============================================================================
