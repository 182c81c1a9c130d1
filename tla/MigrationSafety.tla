--------------------------- MODULE MigrationSafety ---------------------------
(***************************************************************************)
(* The linter of database/migration_safety.py and the staged helpers of    *)
(* database/migration_ops.py.  A revision's upgrade() is the sequence of   *)
(* its op calls in the order scan_block meets them.                        *)
(***************************************************************************)
EXTENDS Naturals, Sequences

\* "t" names the existing table, "n" one that the revision may create, and "?" is
\* an argument that is not a literal; it stands for t when the revision runs.
Tables == {"t", "n", "?"}

DESTRUCTIVE_OPS == {"drop_table", "drop_column", "drop_constraint", "drop_index"}

\* The calls that _scan_call has a branch for.
KnownOps == DESTRUCTIVE_OPS \cup
       {"create_table", "create_index", "create_check_constraint", "create_foreign_key",
        "add_column", "alter_column", "execute"}

\* The other calls of op; create_unique_constraint stands for exclusion constraints
\* and primary keys as well.
UnknownOps == {"create_unique_constraint", "rename_table"}

Ops == KnownOps \cup UnknownOps

\* What a call carries: the keywords the linter reads, others that it does not
\* ("computed", a default evaluated for every row, and "rename", a new column name),
\* the with-block around it ("autocommit"), the branch it stands in ("if"), the
\* statement it executes ("drop_sql", "validate"), whether it is made by a helper
\* ("helper"), whether it is anything but a bare statement on the name op
\* ("unseen"), and whether what it is given is not written out in it ("opaque").
Options == {"concurrently", "autocommit", "not_valid", "non_null", "server_default",
            "type", "computed", "rename", "drop_sql", "validate", "if", "helper",
            "unseen", "opaque"}

Call(op, table, opts) == [op |-> op, table |-> table, opts |-> opts]

Calls == [op: Ops, table: Tables, opts: SUBSET Options]

-----------------------------------------------------------------------------
(* migration_ops.py: the op calls a helper makes.                           *)

\* Mutant: the index is built inside the transaction of the revision.
create_index_concurrently_InTransaction(table) ==
    <<Call("create_index", table, {"helper", "concurrently"})>>

create_index_concurrently(table) ==
    <<Call("create_index", table, {"helper", "concurrently", "autocommit"})>>

create_tsvector_gin_index_concurrently(table) == create_index_concurrently(table)

create_vector_index_concurrently(table) == create_index_concurrently(table)

add_check_constraint_not_valid(table) ==
    <<Call("create_check_constraint", table, {"helper", "not_valid"})>>

add_foreign_key_not_valid(table) ==
    <<Call("create_foreign_key", table, {"helper", "not_valid"})>>

validate_constraint(table) == <<Call("execute", table, {"helper", "validate"})>>

\* The temporary check stands for the one on the column.
enforce_not_null(table) ==
    add_check_constraint_not_valid(table) \o validate_constraint(table) \o
    <<Call("alter_column", table, {"helper", "non_null"}),
      Call("drop_constraint", table, {"helper"})>>

\* The calls that helpers make.
HelperCalls ==
    LET made(body) == {body[i] : i \in DOMAIN body}
    IN  UNION {made(create_index_concurrently(table))
                 \cup made(add_foreign_key_not_valid(table))
                 \cup made(enforce_not_null(table)) : table \in Tables}

\* An author's revision: an option stands with the call that takes it, and what
\* helpers call they call in their own way, enforce_not_null as a whole.
Authored(body) ==
    /\ body \in Seq(Calls)
    /\ \A i \in DOMAIN body :
          /\ "drop_sql" \in body[i].opts => body[i].op = "execute"
          /\ "concurrently" \in body[i].opts => body[i].op = "create_index"
          /\ "computed" \in body[i].opts => body[i].op = "add_column"
          /\ "rename" \in body[i].opts => body[i].op = "alter_column"
          /\ "helper" \in body[i].opts => body[i] \in HelperCalls
          /\ {"helper", "non_null"} \subseteq body[i].opts =>
               \E j \in DOMAIN body : "validate" \in body[j].opts

-----------------------------------------------------------------------------
(* _UpgradeScanner.                                                         *)

\* _statement_call and _op_method: only a statement that is a call of an attribute
\* of "op" is looked at.
Seen(call) == {"helper", "unseen"} \cap call.opts = {}

\* A value of the call that the linter can read: _keyword_bool, the Column(...) of
\* add_column and its nullable=False, the text of execute.
Literal(call, option) == option \in call.opts /\ "opaque" \notin call.opts

\* created_tables when scan_block reaches call i: branches share it.
CreatedTables(body, i) ==
    {body[j].table : j \in {k \in 1..(i - 1) : Seen(body[k]) /\ body[k].op = "create_table"}}
        \ {"?"}

\* Mutant: a table name that is not a literal is taken for a new table.
OnExistingTable_Literal(body, i) ==
    body[i].table \notin CreatedTables(body, i) \cup {"?"}

OnExistingTable(body, i) == body[i].table \notin CreatedTables(body, i)

\* _scan_call: the codes reported as errors.  An unknown call falls through.
ErrorCodes(body, i) ==
    LET call == body[i]
        has(option) == option \in call.opts
        literal(option) == Literal(call, option)
        existing == OnExistingTable(body, i)
    IN  {code \in {"destructive-change", "blocking-index", "concurrent-index-transaction",
                   "immediate-constraint-validation", "non-null-column-without-backfill",
                   "column-type-rewrite", "destructive-sql"} :
           CASE code = "destructive-change" -> call.op \in DESTRUCTIVE_OPS
             [] code = "blocking-index" ->
                  call.op = "create_index" /\ existing /\ ~literal("concurrently")
             [] code = "concurrent-index-transaction" ->
                  /\ call.op = "create_index" /\ existing
                  /\ literal("concurrently") /\ ~has("autocommit")
             [] code = "immediate-constraint-validation" ->
                  /\ call.op \in {"create_check_constraint", "create_foreign_key"}
                  /\ existing /\ ~literal("not_valid")
             [] code = "non-null-column-without-backfill" ->
                  /\ call.op = "add_column" /\ existing
                  /\ literal("non_null") /\ ~has("server_default")
             [] code = "column-type-rewrite" -> call.op = "alter_column" /\ has("type")
             [] code = "destructive-sql" -> call.op = "execute" /\ literal("drop_sql")}

\* _scan_call: the codes reported as warnings.
WarningCodes(call) ==
    {code \in {"set-not-null", "raw-sql-review"} :
       IF code = "set-not-null"
         THEN call.op = "alter_column" /\ Literal(call, "non_null")
         ELSE call.op = "execute" /\ ~Literal(call, "drop_sql")}

SeenCalls(body) == {i \in DOMAIN body : Seen(body[i])}

Errors(body) == UNION {ErrorCodes(body, i) : i \in SeenCalls(body)}

Warnings(body) == UNION {WarningCodes(body[i]) : i \in SeenCalls(body)}

\* MigrationSafetyReport.safe for a revision and its migration_safety_allow.
Safe(revision) == Errors(revision.body) \subseteq revision.waivers
=============================================================================
