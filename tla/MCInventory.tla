---------------------------- MODULE MCInventory ----------------------------
(***************************************************************************)
(* Small instances of the inventory's lifecycle for TLC.                   *)
(***************************************************************************)
EXTENDS InventoryLifecycle

CONSTANTS deploy, job, role, \* objects; the name of role contains the separator
          v1, v2             \* versions

At(id, version) == [id |-> id, version |-> version]

\* An object that moves to another version, one that is listed twice, at two
\* versions, and one that comes and goes.
VersionPrograms ==
    {<<>>,
     <<At(deploy, v1)>>,
     <<At(job, v1), At(deploy, v2)>>,
     <<At(deploy, v2), At(job, v1), At(deploy, v1)>>,
     <<At(job, v2)>>}

\* The same, and programs with an identifier that cannot be read back.
AllPrograms == VersionPrograms \cup {<<At(deploy, v1), At(role, v1)>>}
=============================================================================
