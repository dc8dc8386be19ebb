SPECIFICATION RouterSpec
CONSTANTS
    a = a
    b = b
    x = x
    y = y
    f = f
    star = star
    nx = nx
    ny = ny
    NameOf <- MCNameOf
    get = get
    post = post
    Methods = {get, post}
    Names = {a, b}
    Params = {x, y}
    Stars = {f, star}
    Patterns <- MCPatterns
    Paths <- MCPaths
    MaxRoutes = 3
    None = None
SYMMETRY Symmetry
CHECK_DEADLOCK FALSE
INVARIANTS BestRouteServes
PROPERTIES OnlyNewRouteTakes
