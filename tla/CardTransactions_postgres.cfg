SPECIFICATION Spec
CONSTANTS
    Edits = {e1, e2}
    Job = job
    Adapter = "postgres"
    None = None
INVARIANTS
    NoLostUpdate
