---------------------------- MODULE VectorIndex ----------------------------
(***************************************************************************)
(* The vector index of one notebook: the `embedding_index` rows in SQLite  *)
(* (the registry) and the Lance tables on disk, which no transaction spans.*)
(* Every operator below is one store call of lens-core/src/vector_store.rs *)
(* or one SQL statement of it; the callers that interleave these calls are *)
(* in IndexLifecycle.                                                      *)
(*                                                                         *)
(* A table is named by its coordinate (backend, model, dim) and a          *)
(* generation; generation 0 is the formula name of `table_name`.           *)
(***************************************************************************)
EXTENDS Naturals

CONSTANTS
    Sources,   \* source ids of the notebook
    Coords,    \* embedding coordinates the notebook may be configured for
    MaxGen,    \* bound: generations of table names
    MaxVer     \* bound: times a source's chunks are replaced

ASSUME BoundsAssumption == MaxGen \in Nat /\ MaxVer \in Nat

VARIABLES
    registry,  \* set of <<table, status>>: the rows of embedding_index
    phys,      \* the Lance tables that exist on disk
    rows       \* table -> its vector rows ({} when the table does not exist)

storeVars == <<registry, phys, rows>>

Versions == 0 .. MaxVer

\* All vectors one embedding pass writes for one source: the chunk ids of
\* chunking `ver`, embedded from the raw or from the contextual text.
Row == [src : Sources, ver : Versions, kind : {"raw", "ctx"}]

TableIds == Coords \X (0 .. MaxGen)
RowStatus == {"active", "building", "stale"}

StoreTypeOK ==
    /\ registry \subseteq TableIds \X RowStatus
    /\ phys \subseteq TableIds
    /\ rows \in [TableIds -> SUBSET Row]

StoreInit ==
    /\ registry = {}
    /\ phys = {}
    /\ rows = [t \in TableIds |-> {}]

-----------------------------------------------------------------------------
(* Registry reads *)

Registered == {t \in TableIds : \E st \in RowStatus : <<t, st>> \in registry}
WithStatus(st) == {t \in TableIds : <<t, st>> \in registry}
ActiveTables(c) == {t \in WithStatus("active") : t[1] = c}
BuildingTables(c) == {t \in WithStatus("building") : t[1] = c}
ActiveCoords == {t[1] : t \in WithStatus("active")}

\* open_active_table: the active row's table, nothing when it is missing on
\* disk (search then degrades to empty).
Open(c) == ActiveTables(c) \cap phys
Searchable(c) == UNION {rows[t] : t \in Open(c)}

\* create_building_table's loop: the first generation that neither the
\* registry nor the directory listing names.
FreeGen(c, g) == <<c, g>> \notin Registered /\ <<c, g>> \notin phys
IsNextGen(c, g) ==
    /\ g \in 1 .. MaxGen
    /\ FreeGen(c, g)
    /\ \A h \in 1 .. (g - 1) : ~FreeGen(c, h)

-----------------------------------------------------------------------------
(* Lance calls *)

\* drop_tables: a table that does not exist is skipped.
DropTables(T) ==
    /\ phys' = phys \ T
    /\ rows' = [t \in TableIds |-> IF t \in T THEN {} ELSE rows[t]]

CreateEmpty(t) == phys' = phys \cup {t} /\ rows' = rows

\* add_to_table; the caller has found that the table opens.
AddRows(t, new) == phys' = phys /\ rows' = [rows EXCEPT ![t] = @ \cup new]

RowsOf(s) == {r \in Row : r.src = s}

\* drop_source, for the active table of every coordinate of C.
DropSource(C, s) ==
    /\ phys' = phys
    /\ rows' = [t \in TableIds |->
                  IF \E c \in C : t \in Open(c) THEN rows[t] \ RowsOf(s) ELSE rows[t]]

\* Mutant: the source being re-embedded is copied too.
SeedFromActive_All(t, s) == AddRows(t, Searchable(t[1]))

\* seed_building_from_active: copies every row of another source.
SeedFromActive(t, s) == AddRows(t, Searchable(t[1]) \ RowsOf(s))

-----------------------------------------------------------------------------
(* Registry writes *)

\* register: the partial unique index uq_embidx_active makes a second active
\* row of the coordinate a no-op.
Register(t, st) ==
    registry' = IF st = "active" /\ ActiveTables(t[1]) # {}
                THEN registry
                ELSE registry \cup {<<t, st>>}

Demoted(c) == {r \in registry : r[2] = "active" /\ r[1][1] = c}

\* Mutant: the promotion without the demotion.
FlipTxn_NoDemote(t) ==
    registry' = (registry \ {<<t, "building">>}) \cup {<<t, "active">>}

\* Mutant: a status that no reader knows.
FlipTxn_BadStatus(t) ==
    registry' = (registry \ {<<t, "building">>}) \cup {<<t, "live">>}

\* flip_active_txn, when the building row is there to promote.
FlipTxn(t) ==
    registry' = (registry \ (Demoted(t[1]) \cup {<<t, "building">>}))
                \cup {<<u, "stale">> : u \in ActiveTables(t[1])}
                \cup {<<t, "active">>}

\* Mutant: the row stays active while its table is dropped.
DemoteTxn_Skipped(c) == registry' = registry

\* demote_active_to_stale
DemoteTxn(c) ==
    registry' = (registry \ Demoted(c)) \cup {<<u, "stale">> : u \in ActiveTables(c)}

\* delete_row_by_table, for each table of T
DeleteRowsByTable(T) == registry' = {r \in registry : r[1] \notin T}

\* delete_building_rows: every building row of the coordinate, whoever owns it
DeleteBuildingRows(c) ==
    registry' = {r \in registry : ~(r[2] = "building" /\ r[1][1] = c)}

=============================================================================
