---------------------------- MODULE ObjectRecipes ----------------------------
(***************************************************************************)
(* plan_object, plan_alter_misc and plan_security: the kinds that create,  *)
(* drop and alter what is not a table's data.  An intent's facts are what  *)
(* its clauses say of the object, gone what they take back.                *)
(***************************************************************************)
EXTENDS TableRecipes

\* Created unless it is there; dropped unless something depends on it.
CreateOnce(in, obs, sql) == IF Exists(obs, in.name) THEN Satisfied ELSE Txn(sql)

DropOnce(in, obs) ==
    CASE ~Exists(obs, in.name) -> Satisfied
      [] ReadersOf(obs, {in.name}) # {} -> Conflict
      [] OTHER -> Txn(<<DropRel(in.name)>>)

Create(in, kind) == <<CreateRel(in.name, kind, in.facts), CommentOn(in.name)>>

---------------------------------------------------------------------------
\* plan_object

CreateSchema(in, obs) == CreateOnce(in, obs, Create(in, "schema"))

\* What a schema contains depends on it.
DropSchema(in, obs) == DropOnce(in, obs)

CreateExtension(in, obs) ==
    CASE Exists(obs, in.name) -> Satisfied
      [] <<"available", in.name>> \notin obs -> Conflict
      [] OTHER -> Txn(<<CreateRel(in.name, "extension", in.facts)>>)

DropExtension(in, obs) == DropOnce(in, obs)

CreateType(in, obs) ==
    IF Exists(obs, in.name) /\ ~HasKind(obs, in.name, in.type_kind) THEN Conflict
    ELSE CreateOnce(in, obs, Create(in, in.type_kind))

DropType(in, obs) == DropOnce(in, obs)

\* Its own transaction, before which everything is committed.
AddEnumValue(in, obs) ==
    CASE ~Exists(obs, in.name) -> Conflict
      [] <<"label", in.name, in.value>> \in obs -> Satisfied
      [] OTHER -> OwnTxn(<<AddLabel(in.name, in.value)>>)

CreateFunction(in, obs) ==
    IF Exists(obs, in.name) /\ <<"returns", in.name, in.returns>> \notin obs THEN Conflict
    ELSE Txn(<<CreateOrReplace(in.name, "function",
                               in.facts \cup {<<"returns", in.name, in.returns>>}),
               CommentOn(in.name)>>)

DropFunction(in, obs) == DropOnce(in, obs)

CreateSequence(in, obs) == CreateOnce(in, obs, Create(in, "sequence"))

DropSequence(in, obs) == DropOnce(in, obs)

DropView(in, obs) ==
    CASE ~Exists(obs, in.name) -> Satisfied
      [] ~IsView(obs, in.name) \/ DependentViews(obs, in.name) # {} -> Conflict
      [] OTHER -> Txn(<<DropRel(in.name)>>)

---------------------------------------------------------------------------
\* plan_alter_misc

\* The rename first, and every other clause on the name the intent gives.
RenameAndAlter(in) ==
    Txn((IF in.to = "" THEN <<>> ELSE <<RenameRel(in.name, in.to)>>)
            \o (IF in.facts \cup in.gone = {} THEN <<>>
                ELSE <<Alter(in.name, {}, in.facts, in.gone)>>))

AlterNamed(in, obs) == IF ~Exists(obs, in.name) THEN Conflict ELSE RenameAndAlter(in)

AlterSequence(in, obs) == AlterNamed(in, obs)
AlterSchema(in, obs) == AlterNamed(in, obs)
AlterFunction(in, obs) == AlterNamed(in, obs)
AlterView(in, obs) == AlterNamed(in, obs)

AlterColumnDefault(in, obs) ==
    IF ~Exists(obs, in.table) \/ ~HasColumn(obs, in.table, in.column) THEN Conflict
    ELSE Txn(<<AlterTable(in.table, {<<"col", in.table, in.column>>}, in.facts, in.gone)>>)

DropNotNull(in, obs) ==
    CASE ~Exists(obs, in.table) \/ ~HasColumn(obs, in.table, in.column) -> Conflict
      [] <<"notnull", in.column>> \notin obs -> Satisfied
      [] OTHER -> Txn(<<AlterTable(in.table, {<<"col", in.table, in.column>>}, {},
                                   {<<"notnull", in.column>>})>>)

\* The version decides, whatever else the intent asks for.
AlterExtension(in, obs) ==
    CASE ~Exists(obs, in.name) -> Conflict
      [] in.version # "" /\ <<"at", in.name, in.version>> \in obs -> Satisfied
      [] OTHER -> OwnTxn(<<Alter(in.name, {}, in.facts
                                     \cup (IF in.version = "" THEN {} ELSE {<<"at", in.name, in.version>>}),
                                 {f \in obs : f[1] = "at" /\ f[2] = in.name /\ in.version # ""})>>)

\* The tables with a column of the type are locked against writers while an
\* ALTER DOMAIN reads them, as the step's text says.
OfDomain(obs, n) == {f[2] : f \in {g \in obs : g[1] = "type" /\ g[3] = n}}
UsingDomain(obs, n) == {f[2] : f \in {g \in obs : g[1] = "col" /\ g[3] \in OfDomain(obs, n)}}

ReadsDomain(s, obs, n, rows) ==
    LET tables == UsingDomain(obs, n)
    IN  [Slowly(s, tables) EXCEPT !.op = "alter domain", !.also = tables, !.rows = rows,
                                  !.scan = {<<t, "rows">> : t \in tables}]

\* A domain's check: added for new values, then validated, by whoever asks.
DomainCheck(in, obs) ==
    OwnTxn(<<[Alter(in.name, {}, {<<"con", in.name, in.add_check>>, <<"notvalid", in.add_check>>}, {})
                EXCEPT !.lacks = {<<"con", in.name, in.add_check>>}]>>)
        \o OwnTxn(<<ReadsDomain(Alter(in.name, {<<"con", in.name, in.add_check>>}, {},
                                      {<<"notvalid", in.add_check>>}),
                                obs, in.name, {<<"bad", in.add_check>>})>>)

AlterDomain(in, obs) ==
    CASE ~Exists(obs, in.name) \/ ~HasKind(obs, in.name, "domain") -> Conflict
      [] in.add_check # "" -> DomainCheck(in, obs)
      [] in.not_null -> Txn(<<ReadsDomain(Alter(in.name, {}, in.facts \cup {<<"notnull", in.name>>}, in.gone),
                                          obs, in.name, {<<"nulls", c>> : c \in OfDomain(obs, in.name)})>>)
      [] OTHER -> Txn(<<Alter(in.name, {}, in.facts, in.gone)>>)

AlterPolicy(in, obs) ==
    IF <<"policy", in.table, in.name>> \notin obs THEN Conflict
    ELSE Txn(<<AlterTable(in.table, {<<"policy", in.table, in.name>>}, in.facts, in.gone)>>)

\* These two read nothing.
SetComment(in) == Txn(<<CommentOn(in.name)>>)
SetOwner(in) == Txn(<<[Alter(in.name, {}, in.facts, in.gone) EXCEPT !.xlock = {in.name}]>>)

---------------------------------------------------------------------------
\* plan_security

SetRowSecurity(in, obs) ==
    LET t == in.table
        is(tag, want) == (<<tag, t>> \in obs) = want
        flag(tag, on) == AlterTable(t, {}, IF on THEN {<<tag, t>>} ELSE {},
                                    IF on THEN {} ELSE {<<tag, t>>})
    IN  IF is("rls", in.enabled) /\ is("forced", in.force) THEN Satisfied
        ELSE Txn(<<flag("rls", in.enabled)>>
                     \o (IF in.enabled THEN <<flag("forced", in.force)>> ELSE <<>>))

CreatePolicy(in, obs) ==
    IF <<"policy", in.table, in.name>> \in obs THEN Satisfied
    ELSE Txn(<<[AlterTable(in.table, {}, {<<"policy", in.table, in.name>>} \cup in.facts, {})
                  EXCEPT !.lacks = {<<"policy", in.table, in.name>>}]>>)

DropPolicy(in, obs) ==
    IF <<"policy", in.table, in.name>> \notin obs THEN Satisfied
    ELSE Txn(<<[AlterTable(in.table, {<<"policy", in.table, in.name>>}, {}, {})
                  EXCEPT !.drops = {in.name}]>>)

\* "off": a disabled trigger.
SetTriggerState(in, obs) ==
    LET off == {<<"off", in.trigger>>}
    IN  CASE <<"trigger", in.table, in.trigger>> \notin obs -> Conflict
          [] (<<"off", in.trigger>> \notin obs) = in.enabled -> Satisfied
          [] OTHER -> Txn(<<AlterTable(in.table, {<<"trigger", in.table, in.trigger>>},
                                       IF in.enabled THEN {} ELSE off,
                                       IF in.enabled THEN off ELSE {})>>)

CreateNamedTrigger(in, obs) ==
    IF <<"trigger", in.table, in.name>> \in obs THEN Satisfied
    ELSE Txn(<<CreateTrigger(in.table, in.name, in.facts)>>)

DropNamedTrigger(in, obs) ==
    IF <<"trigger", in.table, in.name>> \notin obs THEN Satisfied
    ELSE Txn(<<DropTrigger(in.table, in.name)>>)

\* Granted and revoked as asked; a repetition changes nothing.
Privileges(in) == Txn(<<Alter(in.name, {}, in.facts, in.gone)>>)

PlanSecurity(in, obs) ==
    CASE in.kind \in {"grant", "revoke"} -> Privileges(in)
      [] ~Exists(obs, in.table) -> Conflict
      [] in.kind = "set_row_security" -> SetRowSecurity(in, obs)
      [] in.kind = "create_policy" -> CreatePolicy(in, obs)
      [] in.kind = "drop_policy" -> DropPolicy(in, obs)
      [] in.kind = "set_trigger_state" -> SetTriggerState(in, obs)
      [] in.kind = "create_trigger" -> CreateNamedTrigger(in, obs)
      [] in.kind = "drop_trigger" -> DropNamedTrigger(in, obs)

=============================================================================
