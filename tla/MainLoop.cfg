SPECIFICATION Spec
CONSTANTS
    ModuleFiles = {m1}
    CommandFiles = {c1, c2}
    Imported = {c1}
    Copied = {m1}
    Broken = {c2}
    Registers = {m1, c2}
    Builtin = builtin
    MaxVersion = 2
    MaxTasks = 2
INVARIANTS
    TypeOK
    ListsAgree
    TasksInOrder
PROPERTIES
    ImportLoaded
    ShutdownCompletes
