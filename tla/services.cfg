SPECIFICATION Spec
CONSTANTS
  Requests = {r1, r2}
  MaxAsked = 4
  SheetLines <- SheetForms
  Making <- MakingCosts
  Yields <- BatchYields
  AvgCosts <- Averages
  Entered = {0, 3}
  NoRate <- NoRateGiven
  Price = 70000
  MaxAttempts = 1
  MaxCodes = 2
  MaxTokens = 3
  Passwords = {p1, p2}
  Keys <- SomeKeys
  MaxReviews = 2
  Categories = {c1}
  Ingredients = {i1}
  Products = {s1, s2}
  Recipes = {m1}
  NoCategory = none
  Lines <- OrderLines
  Amounts = {2}
  NoCost <- NoCostPrice
  WindowDays = 1
  Days = 2
  MaxExpenses = 1
  Names = {"SUPER_ADMIN", "STAFF"}
  Permissions = {k1}
  SeedOrder <- SeedNames
  SeedGrants <- Seeds
  Admins = {a1, a2}
  SeedAdmin = a1
  MaxRoles = 3
  MediaKeys = {f1, f2}
  NoKey = link
  MaxAssets = 2
  Pages = {about}
  Banners = {offer}
  Questions = {why}
  SettingKeys = {branding, invoice}
  Wishables = {g1}
INVARIANTS TypeOK MarginIsTheNewest AttemptsBounded OneSessionPerCode
  ReviewIsEarned CustomerIsHeard OneDefaultAddress 
  GrantsAreAsAsked 
 
CONSTRAINT Few
SYMMETRY Swaps
CHECK_DEADLOCK FALSE
