SPECIFICATION ScriptsSpec
CONSTANTS
  Sources = {jvp_kernel, vjp_kernel, device_kernel, midpoint, cuda_kernel, fortad_kernel}
  Cuda = {cuda_kernel}
  Foreign = {fortad_kernel}
  Removable = {jvp_kernel, vjp_kernel}
  Rk54 = {device_kernel}
  Midpoint = {midpoint}
  MaxRevision = 2
  MaxEdits = 2
  Files = {algorithm, product, value}
  Generated = {product, value}
  ValueOnly = {value}
  Symbols = {x_jvp, fortnum_x}
  Products = {x_jvp}
  Exported = {fortnum_x}
  Generator = gen_wrappers
  Artifacts = {wrapper}
  MaxRows = 2
  Required = {readme, roadmap}
  Roadmap = roadmap
  Documents = {guide, design}
  Headings = {"usage", "options"}
  MaxLength = 3
  Habits = {"private in type", "several constants", "bound procedure", "comment in statement", "closed up", "split heading", "unlisted module"}
  MaxHabits = 1
  Modules = 2
  MaxDepth = 5
  ApiLines = 3
  N = 4
  Listed = 3
  QueueRuns <- SomeRuns
  MaxAccidents = 1
CHECK_DEADLOCK FALSE
INVARIANTS
  OwnedOnce
  ExitTellsDrift
  AuditHonest
  InventoryReads
  NewestGreen
  CulpritBroke
  BlamesCode
