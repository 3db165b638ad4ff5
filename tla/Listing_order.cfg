\* Repositories of up to four files over one database.
SPECIFICATION Spec
CONSTANT Inputs <- AllInputs
INVARIANTS DepsFirst WholeOrRefused CycleIsReal GroupsIndependent
CHECK_DEADLOCK FALSE
