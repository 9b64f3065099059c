SPECIFICATION DocumentationSpec
CONSTANTS
  Sources = {jvp_kernel, vjp_kernel, device_kernel, midpoint, cuda_kernel, fortad_kernel}
  Cuda = {cuda_kernel}
  Foreign = {fortad_kernel}
  Removable = {jvp_kernel, vjp_kernel}
  Rk54 = {device_kernel}
  Midpoint = {midpoint}
  MaxRevision = 2
  MaxEdits = 2
  Files = {algorithm, product, value}
  Generated = {product, value}
  ValueOnly = {value}
  Symbols = {x_jvp, fortnum_x}
  Products = {x_jvp}
  Exported = {fortnum_x}
  Generator = gen_wrappers
  Artifacts = {wrapper}
  MaxRows = 0
  Required = {readme, roadmap}
  Roadmap = roadmap
  Documents = {guide, design}
  Headings = {"usage", "options"}
  MaxLength = 1
CHECK_DEADLOCK FALSE
INVARIANTS
  NoDrift
