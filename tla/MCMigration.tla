----------------------------- MODULE MCMigration -----------------------------
\* A rollout with racing jobs, and revisions of one or two calls, linted and run.
EXTENDS Migration, TLC

ProcessSymmetry == Permutations(Workers) \cup Permutations(Deployers)

Creates == {Call("create_table", table, {}) : table \in Tables}
             \cup {Call("create_table", "n", {"if"})}

Single ==
    Creates
      \cup {Call(op, table, {}) : op \in DESTRUCTIVE_OPS, table \in {"t", "n"}}
      \cup [op: {"create_index"}, table: Tables, opts: SUBSET {"concurrently", "autocommit"}]
      \cup [op: {"create_check_constraint", "create_foreign_key"}, table: Tables,
            opts: SUBSET {"not_valid"}]
      \cup [op: {"add_column"}, table: Tables, opts: SUBSET {"non_null", "server_default"}]
      \cup [op: {"alter_column"}, table: {"t"}, opts: SUBSET {"type", "non_null", "if"}]
      \cup [op: {"execute"}, table: {"t"}, opts: SUBSET {"drop_sql", "opaque"}]
      \cup [op: {"add_column"}, table: {"t"},
            opts: {{"non_null", "opaque"}, {"opaque"}, {"server_default", "computed"}}]
      \cup {Call("create_index", "t", {"concurrently", "autocommit", "opaque"}),
            Call("alter_column", "t", {"rename"}), Call("drop_table", "t", {"unseen"}),
            Call("create_unique_constraint", "t", {}), Call("rename_table", "t", {})}

Bodies ==
    {<<call>> : call \in Single}
      \cup {<<first, second>> : first \in Creates, second \in Single}
      \cup {create_tsvector_gin_index_concurrently("t"),
            create_vector_index_concurrently("t"), add_check_constraint_not_valid("t"),
            add_foreign_key_not_valid("t"), enforce_not_null("t"),
            <<Call("create_table", "t", {"unseen"}), Call("create_index", "t", {})>>}

MCPrograms ==
    [body: Bodies, waivers: {{}, {"destructive-change"}}] \cup {[body |-> <<>>, waivers |-> {}]}
=============================================================================
