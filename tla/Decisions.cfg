SPECIFICATION Spec
CONSTANTS
  Params = {"a", "b"}
  Calls = 3
  UsedImports <- MCImports
  UsedFunctions = {"net.Dial", "os.Exit", "fmt.Print"}
  Forms <- MCForms
  Posts <- MCPosts
  ConfigFiles <- MCConfigFiles
INVARIANTS
  FormHonest
  ReportsReachProgram
  BansStand
CHECK_DEADLOCK FALSE
