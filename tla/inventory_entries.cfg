SPECIFICATION Spec
CONSTANTS
    deploy = deploy  job = job  role = role
    v1 = v1  v2 = v2
    Ids = {deploy, job, role}
    Unparsable = {role}
    Versions = {v1, v2}
    Programs <- AllPrograms
    PruneDisabled = {job}
    MaxChanges = 3
INVARIANTS TypeOK KeepsDesired Accounted NamedAsApplied NothingLeft
CHECK_DEADLOCK FALSE
