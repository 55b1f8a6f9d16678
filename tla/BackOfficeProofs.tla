---------------------------- MODULE BackOfficeProofs ----------------------------
(***************************************************************************)
(* Proofs about what admins do beside orders and purchases: the catalogue, *)
(* the media library, who may do what, cost sheets, reports and the site's *)
(* content, each for any number of requests; and about the types of all    *)
(* the services, those of CustomerProofs too.                              *)
(***************************************************************************)
EXTENDS Services, CustomerProofs, SumTheorems

(***************************************************************************)
(* The catalogue.                                                          *)
(***************************************************************************)

\* What a request found before it writes.
CatalogueJobFits(j) ==
  /\ j.step = "restore" => j.was # NoCategory
  /\ j.step \in {"category", "ingredient"} => j.was = {}
  /\ j.step = "recipe" => ~j.was

Placed ==
  \A p \in DOMAIN products : products[p].live => products[p].category # NoCategory

CatalogueInv ==
  /\ JobsOK
  /\ \A r \in Requests : CatalogueJobFits(job[r])
  /\ categories \subseteq Categories
  /\ \A p \in DOMAIN products :
       DOMAIN products[p] = {"category", "ingredients", "live"}
  /\ ~overtaken => Placed

\* The catalogue starts with no products and no requests.
LEMMA CatalogueInitInv == CatalogueInit => CatalogueInv
<1>. SUFFICES ASSUME CatalogueInit PROVE CatalogueInv
  OBVIOUS
<1>1. JobsOK /\ \A r \in Requests : job[r].step = "idle"
  BY Starting DEF CatalogueInit
<1>2. \A r \in Requests : CatalogueJobFits(job[r])
  BY <1>1 DEF CatalogueJobFits
<1>3. categories \subseteq Categories /\ DOMAIN products = {}
  BY DEF CatalogueInit
<1>. QED
  BY <1>1, <1>2, <1>3 DEF CatalogueInv, Placed

\* A product that is written is in a category.
LEMMA SaveProductStep ==
  ASSUME CatalogueInv, SaveProduct
  PROVE  CatalogueInv'
<1>1. PICK p \in Products, c \in categories, made \in SUBSET ingredients :
        products' = Saved(products, p,
                      [category |-> c, ingredients |-> made,
                       live |-> p \in DOMAIN products => products[p].live])
  BY DEF SaveProduct
<1>. PICK row : row = [category |-> c, ingredients |-> made,
                       live |-> p \in DOMAIN products => products[p].live]
  OBVIOUS
<1>2. /\ DOMAIN row = {"category", "ingredients", "live"}
      /\ row.category # NoCategory
  BY NoCategoryAssumption DEF CatalogueInv
<1>3. /\ DOMAIN products' = DOMAIN products \cup {p}
      /\ products'[p] = row
      /\ \A i \in DOMAIN products \ {p} : products'[i] = products[i]
  BY <1>1 DEF Saved
<1>4. UNCHANGED <<categories, job, overtaken, inFlight>>
  BY DEF SaveProduct, inFlight
<1>5. Placed => Placed'
  BY <1>2, <1>3 DEF Placed
<1>6. \A i \in DOMAIN products' :
        DOMAIN products'[i] = {"category", "ingredients", "live"}
  BY <1>2, <1>3 DEF CatalogueInv
<1>. QED
  BY <1>4, <1>5, <1>6 DEF CatalogueInv, JobsOK

\* A product that is deleted need not be in a category.
LEMMA RemoveProductStep ==
  ASSUME CatalogueInv, RemoveProduct
  PROVE  CatalogueInv'
<1>1. PICK p \in DOMAIN products :
        products' = [products EXCEPT ![p].live = FALSE]
  BY DEF RemoveProduct
<1>2. /\ DOMAIN products' = DOMAIN products
      /\ \A i \in DOMAIN products \ {p} : products'[i] = products[i]
      /\ DOMAIN products'[p] = DOMAIN products[p]
      /\ products'[p].live = FALSE
  BY <1>1 DEF CatalogueInv
<1>3. UNCHANGED <<categories, job, overtaken>>
  BY DEF RemoveProduct, inFlight
<1>4. Placed => Placed'
  BY <1>2 DEF Placed
<1>. QED
  BY <1>2, <1>3, <1>4 DEF CatalogueInv, JobsOK

\* A recipe that is written changes no product.
LEMMA SaveRecipeStep ==
  ASSUME CatalogueInv, SaveRecipe
  PROVE  CatalogueInv'
BY DEF SaveRecipe, CatalogueInv, JobsOK, Placed, inFlight

\* A request begins with what it found.
LEMMA CatalogueBegins ==
  ASSUME CatalogueInv, UNCHANGED catalogueVars, NEW r \in Requests, NEW s, NEW id,
         NEW was, Begin(r, [step |-> s, id |-> id, was |-> was]),
         s = "restore" => was # NoCategory,
         s \in {"category", "ingredient"} => was = {},
         s = "recipe" => ~was
  PROVE  CatalogueInv'
<1>. DEFINE what == [step |-> s, id |-> id, was |-> was]
<1>1. /\ DOMAIN what = {"step", "id", "was"}
      /\ what["step"] = s /\ what["was"] = was
  OBVIOUS
<1>. HIDE DEF what
<1>2. /\ JobsOK' /\ overtaken' = overtaken
      /\ \A q \in Requests \ {r} : job'[q] = job[q]
      /\ \A f \in DOMAIN what : job'[r][f] = what[f]
  BY <1>1, Beginning DEF CatalogueInv, what
<1>3. job'[r].step = s /\ job'[r].was = was
  BY <1>1, <1>2
<1>4. \A q \in Requests : CatalogueJobFits(job'[q])
  BY <1>2, <1>3 DEF CatalogueInv, CatalogueJobFits
<1>. QED
  BY <1>2, <1>4 DEF CatalogueInv, Placed, catalogueVars, CatalogueJobFits

\* What restore, and the removals, found is what they go by.
LEMMA AskCatalogueStep ==
  ASSUME CatalogueInv, NEW r \in Requests,
         AskRestore(r) \/ AskRemoveCategory(r) \/ AskRemoveIngredient(r)
           \/ AskRemoveRecipe(r)
  PROVE  CatalogueInv'
<1>1. CASE AskRestore(r)
  BY <1>1, CatalogueBegins DEF AskRestore
<1>2. CASE AskRemoveCategory(r)
  BY <1>2, CatalogueBegins DEF AskRemoveCategory, emptyCategory
<1>3. CASE AskRemoveIngredient(r)
  BY <1>3, CatalogueBegins DEF AskRemoveIngredient
<1>4. CASE AskRemoveRecipe(r)
  BY <1>4, CatalogueBegins DEF AskRemoveRecipe
<1>. QED
  BY <1>1, <1>2, <1>3, <1>4

\* A request that has answered leaves the others as they were.
LEMMA CatalogueSettles ==
  ASSUME CatalogueInv, NEW r \in Requests, NEW stale \in BOOLEAN,
         Settle(r, stale)
  PROVE  /\ JobsOK' /\ overtaken' = (overtaken \/ stale)
         /\ \A q \in Requests : CatalogueJobFits(job'[q])
<1>1. /\ JobsOK' /\ overtaken' = (overtaken \/ stale)
      /\ \A q \in Requests \ {r} : job'[q] = job[q]
      /\ job'[r].step = "idle"
  BY Settling DEF CatalogueInv
<1>. QED
  BY <1>1 DEF CatalogueInv, CatalogueJobFits

\* A restored product is still where it was found.
LEMMA WriteRestoreStep ==
  ASSUME CatalogueInv, NEW r \in Requests, WriteRestore(r)
  PROVE  CatalogueInv'
<1>. PICK p : p = job[r].id
  OBVIOUS
<1>. PICK stale \in BOOLEAN : stale = (products[p].category # job[r].was)
  OBVIOUS
<1>1. /\ products' = [products EXCEPT ![p].live = TRUE]
      /\ Settle(r, stale) /\ categories' = categories
      /\ job[r].step = "restore"
  BY DEF WriteRestore, At
<1>2. /\ JobsOK' /\ overtaken' = (overtaken \/ stale)
      /\ \A q \in Requests : CatalogueJobFits(job'[q])
  BY <1>1, CatalogueSettles
<1>3. /\ DOMAIN products' = DOMAIN products
      /\ \A i \in DOMAIN products :
           /\ i # p => products'[i] = products[i]
           /\ DOMAIN products'[i] = DOMAIN products[i]
           /\ products'[i].category = products[i].category
  BY <1>1 DEF CatalogueInv
<1>4. ~overtaken' /\ Placed => Placed'
  <2>1. job[r].was # NoCategory
    BY <1>1 DEF CatalogueInv, CatalogueJobFits
  <2>. QED
    BY <1>2, <1>3, <2>1 DEF Placed
<1>. QED
  BY <1>1, <1>2, <1>3, <1>4 DEF CatalogueInv, CatalogueJobFits

\* No product on sale was left in the category.
LEMMA DeleteCategoryStep ==
  ASSUME CatalogueInv, NEW r \in Requests, DeleteCategory(r)
  PROVE  CatalogueInv'
<1>. PICK c : c = job[r].id
  OBVIOUS
<1>. PICK stale \in BOOLEAN : stale = (LiveIn(c) # job[r].was)
  OBVIOUS
<1>1. /\ products' = [p \in DOMAIN products |->
                        IF products[p].category = c
                        THEN [products[p] EXCEPT !.category = NoCategory]
                        ELSE products[p]]
      /\ Settle(r, stale) /\ categories' = categories \ {c}
      /\ job[r].step = "category"
  BY DEF DeleteCategory, At
<1>2. /\ JobsOK' /\ overtaken' = (overtaken \/ stale)
      /\ \A q \in Requests : CatalogueJobFits(job'[q])
  BY <1>1, CatalogueSettles
<1>3. /\ DOMAIN products' = DOMAIN products
      /\ \A p \in DOMAIN products :
           /\ products[p].category # c => products'[p] = products[p]
           /\ DOMAIN products'[p] = DOMAIN products[p]
           /\ products'[p].live = products[p].live
  BY <1>1 DEF CatalogueInv
<1>4. ~overtaken' /\ Placed => Placed'
  <2>1. job[r].was = {}
    BY <1>1 DEF CatalogueInv, CatalogueJobFits
  <2>2. ~stale => \A p \in DOMAIN products :
                    products[p].live => products[p].category # c
    BY <2>1 DEF LiveIn
  <2>. QED
    BY <1>2, <1>3, <2>2 DEF Placed
<1>. QED
  BY <1>1, <1>2, <1>3, <1>4 DEF CatalogueInv, CatalogueJobFits

\* A deleted ingredient changes what products are made with, not where they are.
LEMMA DeleteIngredientStep ==
  ASSUME CatalogueInv, NEW r \in Requests, DeleteIngredient(r)
  PROVE  CatalogueInv'
<1>. PICK i : i = job[r].id
  OBVIOUS
<1>. PICK stale \in BOOLEAN : stale = (UsesOf(i) # job[r].was)
  OBVIOUS
<1>1. /\ products' = Stripped(products, i)
      /\ Settle(r, stale) /\ categories' = categories
  BY DEF DeleteIngredient
<1>2. /\ JobsOK' /\ overtaken' = (overtaken \/ stale)
      /\ \A q \in Requests : CatalogueJobFits(job'[q])
  BY <1>1, CatalogueSettles
<1>3. /\ DOMAIN products' = DOMAIN products
      /\ \A p \in DOMAIN products :
           /\ DOMAIN products'[p] = DOMAIN products[p]
           /\ products'[p].live = products[p].live
           /\ products'[p].category = products[p].category
  BY <1>1 DEF CatalogueInv, Stripped
<1>4. Placed => Placed'
  BY <1>3 DEF Placed
<1>. QED
  BY <1>1, <1>2, <1>3, <1>4 DEF CatalogueInv, CatalogueJobFits

\* A deleted recipe changes no product.
LEMMA DeleteRecipeStep ==
  ASSUME CatalogueInv, NEW r \in Requests, DeleteRecipe(r)
  PROVE  CatalogueInv'
<1>. PICK stale \in BOOLEAN : stale = (recipes[job[r].id].shown # job[r].was)
  OBVIOUS
<1>1. Settle(r, stale) /\ UNCHANGED <<categories, products>>
  BY DEF DeleteRecipe
<1>2. /\ JobsOK' /\ overtaken' = (overtaken \/ stale)
      /\ \A q \in Requests : CatalogueJobFits(job'[q])
  BY <1>1, CatalogueSettles
<1>. QED
  BY <1>1, <1>2 DEF CatalogueInv, CatalogueJobFits, Placed

\* A handler of the catalogue that stops has written nothing.
LEMMA AbandonCatalogueStep ==
  ASSUME CatalogueInv, NEW r \in Requests, AbandonCatalogue(r)
  PROVE  CatalogueInv'
<1>1. Settle(r, FALSE) /\ UNCHANGED catalogueVars
  BY DEF AbandonCatalogue, Interrupt, End
<1>2. /\ JobsOK' /\ overtaken' = (overtaken \/ FALSE)
      /\ \A q \in Requests : CatalogueJobFits(job'[q])
  BY <1>1, CatalogueSettles
<1>. QED
  BY <1>1, <1>2 DEF CatalogueInv, CatalogueJobFits, Placed, catalogueVars

\* Every step of the catalogue preserves the invariant.
LEMMA CatalogueNextInv ==
  CatalogueInv /\ [CatalogueNext]_<<catalogueVars, inFlight>> => CatalogueInv'
<1>. SUFFICES ASSUME CatalogueInv, [CatalogueNext]_<<catalogueVars, inFlight>>
              PROVE  CatalogueInv'
  OBVIOUS
<1>1. CASE UNCHANGED <<catalogueVars, inFlight>>
  BY <1>1 DEF CatalogueInv, CatalogueJobFits, JobsOK, Placed, catalogueVars,
    inFlight
<1>. QED
  BY <1>1, SaveProductStep, RemoveProductStep, SaveRecipeStep,
    AskCatalogueStep, WriteRestoreStep, DeleteCategoryStep,
    DeleteIngredientStep, DeleteRecipeStep, AbandonCatalogueStep
    DEF CatalogueNext

\* What goes from the catalogue was found unused, and still was.
LEMMA CatalogueStep ==
  ASSUME CatalogueInv, CatalogueNext, ~overtaken', CatalogueInv'
  PROVE  /\ \A p \in DOMAIN products' :
              products'[p].live => products'[p].category # NoCategory
         /\ \A i \in ingredients \ ingredients' : UsesOf(i) = {}
         /\ \A x \in DOMAIN recipes \ DOMAIN recipes' : ~recipes[x].shown
<1>1. \A p \in DOMAIN products' :
        products'[p].live => products'[p].category # NoCategory
  BY DEF CatalogueInv, Placed
<1>2. ASSUME NEW r \in Requests, DeleteIngredient(r),
             NEW i \in ingredients \ ingredients'
      PROVE  UsesOf(i) = {}
  <2>1. PICK stale \in BOOLEAN : stale = (UsesOf(job[r].id) # job[r].was)
    OBVIOUS
  <2>2. /\ i = job[r].id /\ job[r].step = "ingredient" /\ Settle(r, stale)
    BY <1>2, <2>1 DEF DeleteIngredient, At
  <2>3. overtaken' = (overtaken \/ stale)
    BY <2>2, CatalogueSettles
  <2>. QED
    BY <2>1, <2>2, <2>3 DEF CatalogueInv, CatalogueJobFits
<1>3. ASSUME NEW r \in Requests, DeleteRecipe(r),
             NEW x \in DOMAIN recipes \ DOMAIN recipes'
      PROVE  ~recipes[x].shown
  <2>1. PICK stale \in BOOLEAN :
          stale = (recipes[job[r].id].shown # job[r].was)
    OBVIOUS
  <2>2. /\ x = job[r].id /\ job[r].step = "recipe" /\ Settle(r, stale)
    BY <1>3, <2>1 DEF DeleteRecipe, At, Removed
  <2>3. overtaken' = (overtaken \/ stale)
    BY <2>2, CatalogueSettles
  <2>. QED
    BY <2>1, <2>2, <2>3 DEF CatalogueInv, CatalogueJobFits
<1>4. ASSUME NEW r \in Requests, ~DeleteIngredient(r), ~DeleteRecipe(r),
             \/ AskRestore(r) \/ WriteRestore(r)
             \/ AskRemoveCategory(r) \/ DeleteCategory(r)
             \/ AskRemoveIngredient(r) \/ DeleteIngredient(r)
             \/ AskRemoveRecipe(r) \/ DeleteRecipe(r)
             \/ AbandonCatalogue(r)
      PROVE  ingredients' = ingredients /\ recipes' = recipes
  BY <1>4 DEF AskRestore, WriteRestore, AskRemoveCategory, DeleteCategory,
    AskRemoveIngredient, AskRemoveRecipe, AbandonCatalogue, catalogueVars
<1>5. ASSUME SaveProduct \/ RemoveProduct \/ SaveRecipe
      PROVE  ingredients' = ingredients /\ DOMAIN recipes \subseteq DOMAIN recipes'
  BY <1>5 DEF SaveProduct, RemoveProduct, SaveRecipe, Saved
<1>6. ASSUME NEW r \in Requests, DeleteIngredient(r)
      PROVE  DOMAIN recipes' = DOMAIN recipes
  BY <1>6 DEF DeleteIngredient, Stripped
<1>7. ASSUME NEW r \in Requests, DeleteRecipe(r)
      PROVE  ingredients' = ingredients
  BY <1>7 DEF DeleteRecipe
<1>8. \A i \in ingredients \ ingredients' : UsesOf(i) = {}
  BY <1>2, <1>4, <1>5, <1>7 DEF CatalogueNext
<1>9. \A x \in DOMAIN recipes \ DOMAIN recipes' : ~recipes[x].shown
  BY <1>3, <1>4, <1>5, <1>6 DEF CatalogueNext
<1>. QED
  BY <1>1, <1>8, <1>9

\* No product on sale loses its category, no delete takes what something is made
\* with or a recipe that is shown, however deletions, edits and restores of the
\* catalogue interleave, until one of them met another's change.
THEOREM CatalogueIsWhole == CatalogueSpec => CatalogueStaysWhole
<1>1. CatalogueInv /\ CatalogueInv' /\ [CatalogueNext]_<<catalogueVars, inFlight>> =>
        [~overtaken' =>
           /\ \A p \in DOMAIN products' :
                products'[p].live => products'[p].category # NoCategory
           /\ \A i \in ingredients \ ingredients' : UsesOf(i) = {}
           /\ \A x \in DOMAIN recipes \ DOMAIN recipes' : ~recipes[x].shown
        ]_<<catalogueVars, inFlight>>
  BY CatalogueStep
<1>2. CatalogueSpec => []CatalogueInv
  BY CatalogueInitInv, CatalogueNextInv, PTL DEF CatalogueSpec
<1>. QED
  BY <1>1, <1>2, PTL DEF CatalogueSpec, CatalogueStaysWhole

\* Products and recipes have all their parts and refer to what there is.
ProductKind == [category : categories \cup {NoCategory},
                ingredients : SUBSET ingredients, live : BOOLEAN]
RecipeKind == [ingredients : SUBSET ingredients, shown : BOOLEAN]

CatalogueFits ==
  /\ categories \subseteq Categories /\ ingredients \subseteq Ingredients
  /\ DOMAIN products \subseteq Products /\ DOMAIN recipes \subseteq Recipes
  /\ products = [p \in DOMAIN products |-> products[p]]
  /\ \A p \in DOMAIN products : products[p] \in ProductKind
  /\ \A x \in DOMAIN recipes : recipes[x] \in RecipeKind

\* Whole products and recipes are of their types.
LEMMA CatalogueFitsTypes == CatalogueFits => CatalogueTypeOK
BY DEF CatalogueFits, CatalogueTypeOK, ProductKind, RecipeKind

\* No product and no recipe is there at first.
LEMMA CatalogueInitFits == CatalogueInit => CatalogueFits
BY DEF CatalogueInit, CatalogueFits, ProductKind, RecipeKind

\* No write of the catalogue leaves a reference to what is gone.
LEMMA CatalogueNextFits ==
  CatalogueFits /\ [CatalogueNext]_<<catalogueVars, inFlight>> => CatalogueFits'
<1>. SUFFICES ASSUME CatalogueFits, [CatalogueNext]_<<catalogueVars, inFlight>>
              PROVE  CatalogueFits'
  OBVIOUS
<1>1. CASE UNCHANGED catalogueVars
  BY <1>1 DEF CatalogueFits, catalogueVars, ProductKind, RecipeKind
<1>2. CASE SaveProduct
  <2>1. PICK p \in Products, c \in categories, made \in SUBSET ingredients :
          products' = Saved(products, p,
                        [category |-> c, ingredients |-> made,
                         live |-> p \in DOMAIN products => products[p].live])
    BY <1>2 DEF SaveProduct
  <2>2. PICK live \in BOOLEAN : live = (p \in DOMAIN products => products[p].live)
    OBVIOUS
  <2>3. PICK row : row = [category |-> c, ingredients |-> made, live |-> live]
    OBVIOUS
  <2>4. row \in ProductKind
    BY <2>2, <2>3 DEF ProductKind
  <2>5. products' = Saved(products, p, row)
    BY <2>1, <2>2, <2>3, Zenon
  <2>6. /\ DOMAIN products' = DOMAIN products \cup {p} /\ products'[p] = row
        /\ \A i \in DOMAIN products \ {p} : products'[i] = products[i]
        /\ products' = [i \in DOMAIN products' |-> products'[i]]
    BY <2>5 DEF Saved
  <2>7. UNCHANGED <<categories, ingredients, recipes>>
    BY <1>2 DEF SaveProduct
  <2>. QED
    BY <2>4, <2>6, <2>7 DEF CatalogueFits, ProductKind, RecipeKind
<1>3. CASE \E p \in DOMAIN products :
              /\ products' = [products EXCEPT ![p].live = FALSE]
              /\ UNCHANGED <<categories, ingredients, recipes>>
  <2>1. PICK p \in DOMAIN products :
          /\ products' = [products EXCEPT ![p].live = FALSE]
          /\ UNCHANGED <<categories, ingredients, recipes>>
    BY <1>3
  <2>2. [products[p] EXCEPT !.live = FALSE] \in ProductKind
    BY DEF CatalogueFits, ProductKind
  <2>. QED
    BY <2>1, <2>2 DEF CatalogueFits, ProductKind, RecipeKind
<1>4. CASE SaveRecipe
  <2>1. PICK x \in Recipes, made \in SUBSET ingredients, open \in BOOLEAN :
          recipes' = Saved(recipes, x, [ingredients |-> made, shown |-> open])
    BY <1>4 DEF SaveRecipe
  <2>. PICK row : row = [ingredients |-> made, shown |-> open]
    OBVIOUS
  <2>2. row \in RecipeKind
    BY DEF RecipeKind
  <2>3. /\ DOMAIN recipes' = DOMAIN recipes \cup {x} /\ recipes'[x] = row
        /\ \A i \in DOMAIN recipes \ {x} : recipes'[i] = recipes[i]
    BY <2>1 DEF Saved
  <2>4. UNCHANGED <<categories, ingredients, products>>
    BY <1>4 DEF SaveRecipe
  <2>. QED
    BY <2>2, <2>3, <2>4 DEF CatalogueFits, ProductKind, RecipeKind
<1>5. ASSUME NEW r \in Requests, WriteRestore(r) PROVE CatalogueFits'
  <2>. PICK p : p = job[r].id
    OBVIOUS
  <2>1. /\ products' = [products EXCEPT ![p].live = TRUE]
        /\ UNCHANGED <<categories, ingredients, recipes>>
    BY <1>5 DEF WriteRestore
  <2>2. p \in DOMAIN products => [products[p] EXCEPT !.live = TRUE] \in ProductKind
    BY DEF CatalogueFits, ProductKind
  <2>. QED
    BY <2>1, <2>2 DEF CatalogueFits, ProductKind, RecipeKind
<1>6. ASSUME NEW r \in Requests, DeleteCategory(r) PROVE CatalogueFits'
  <2>. PICK c : c = job[r].id
    OBVIOUS
  <2>1. /\ categories' = categories \ {c}
        /\ products' = [p \in DOMAIN products |->
                          IF products[p].category = c
                          THEN [products[p] EXCEPT !.category = NoCategory]
                          ELSE products[p]]
        /\ UNCHANGED <<ingredients, recipes>>
    BY <1>6 DEF DeleteCategory
  <2>2. ASSUME NEW p \in DOMAIN products PROVE products'[p] \in ProductKind'
    <3>1. products[p] \in ProductKind
      BY DEF CatalogueFits
    <3>2. CASE products[p].category = c
      <4>1. products'[p] = [products[p] EXCEPT !.category = NoCategory]
        BY <2>1, <3>2
      <4>. QED
        BY <2>1, <3>1, <4>1 DEF ProductKind
    <3>3. CASE products[p].category # c
      BY <2>1, <3>1, <3>3 DEF ProductKind
    <3>. QED
      BY <3>2, <3>3
  <2>3. /\ DOMAIN products' = DOMAIN products
        /\ products' = [p \in DOMAIN products' |-> products'[p]]
    BY <2>1
  <2>4. RecipeKind' = RecipeKind
    BY <2>1 DEF RecipeKind
  <2>5. categories' \subseteq Categories
    BY <2>1 DEF CatalogueFits
  <2>. QED
    BY <2>1, <2>2, <2>3, <2>4, <2>5 DEF CatalogueFits
<1>7. ASSUME NEW r \in Requests, DeleteIngredient(r) PROVE CatalogueFits'
  <2>. PICK i : i = job[r].id
    OBVIOUS
  <2>1. /\ ingredients' = ingredients \ {i}
        /\ products' = Stripped(products, i) /\ recipes' = Stripped(recipes, i)
        /\ UNCHANGED categories
    BY <1>7 DEF DeleteIngredient
  <2>2. /\ DOMAIN products' = DOMAIN products
        /\ products' = [p \in DOMAIN products' |-> products'[p]]
        /\ \A p \in DOMAIN products :
             products'[p] = [products[p] EXCEPT !.ingredients = @ \ {i}]
        /\ DOMAIN recipes' = DOMAIN recipes
        /\ \A x \in DOMAIN recipes :
             recipes'[x] = [recipes[x] EXCEPT !.ingredients = @ \ {i}]
    BY <2>1 DEF Stripped
  <2>3. ASSUME NEW p \in DOMAIN products PROVE products'[p] \in ProductKind'
    <3>1. products[p] \in ProductKind
      BY DEF CatalogueFits
    <3>2. products'[p] = [products[p] EXCEPT !.ingredients = @ \ {i}]
      BY <2>2
    <3>. QED
      BY <2>1, <3>1, <3>2 DEF ProductKind
  <2>4. ASSUME NEW x \in DOMAIN recipes PROVE recipes'[x] \in RecipeKind'
    <3>1. recipes[x] \in RecipeKind
      BY DEF CatalogueFits
    <3>2. recipes'[x] = [recipes[x] EXCEPT !.ingredients = @ \ {i}]
      BY <2>2
    <3>. QED
      BY <2>1, <3>1, <3>2 DEF RecipeKind
  <2>5. ingredients' \subseteq Ingredients
    BY <2>1 DEF CatalogueFits
  <2>. QED
    BY <2>1, <2>2, <2>3, <2>4, <2>5 DEF CatalogueFits
<1>8. ASSUME NEW r \in Requests, DeleteRecipe(r) PROVE CatalogueFits'
  <2>1. /\ recipes' = Removed(recipes, job[r].id)
        /\ UNCHANGED <<categories, ingredients, products>>
    BY <1>8 DEF DeleteRecipe
  <2>2. /\ DOMAIN recipes' \subseteq DOMAIN recipes
        /\ \A x \in DOMAIN recipes' : recipes'[x] = recipes[x]
    BY <2>1 DEF Removed
  <2>. QED
    BY <2>1, <2>2 DEF CatalogueFits, ProductKind, RecipeKind
<1>9. CASE RemoveProduct
  BY <1>3, <1>9 DEF RemoveProduct
<1>10. ASSUME NEW r \in Requests,
              \/ AskRestore(r) \/ AskRemoveCategory(r) \/ AskRemoveIngredient(r)
              \/ AskRemoveRecipe(r) \/ AbandonCatalogue(r)
       PROVE  UNCHANGED catalogueVars
  BY <1>10 DEF AskRestore, AskRemoveCategory, AskRemoveIngredient,
    AskRemoveRecipe, AbandonCatalogue
<1>. QED
  BY <1>1, <1>2, <1>4, <1>5, <1>6, <1>7, <1>8, <1>9, <1>10 DEF CatalogueNext

\* Every product is in a category and of ingredients that there are.
THEOREM CatalogueRefersToWhatIs == CatalogueSpec => []CatalogueTypeOK
BY CatalogueFitsTypes, CatalogueInitFits, CatalogueNextFits, PTL DEF CatalogueSpec

(***************************************************************************)
(* The media library.                                                      *)
(***************************************************************************)

\* A request that removes an asset knows its key, and skips the file only where
\* there is none.
MediaJobFits(j) ==
  /\ j.step \in {"idle", "unlink", "row"}
  /\ j.step \in {"unlink", "row"} =>
       /\ j.id \in 1 .. lastAsset
       /\ {"id", "key"} \subseteq DOMAIN j
       /\ j.id \in DOMAIN assets => j.key = assets[j.id].key

Deleting(id) == \E r \in Requests : job[r].step = "row" /\ job[r].id = id

MediaInv ==
  /\ JobsOK
  /\ \A r \in Requests : MediaJobFits(job[r])
  /\ lastAsset \in Nat
  /\ files \subseteq MediaKeys
  /\ \A id \in DOMAIN assets : id \in 1 .. lastAsset
  /\ \A id, other \in DOMAIN assets :
       assets[id].key = assets[other].key /\ assets[id].key # NoKey => id = other
  /\ \A id \in DOMAIN assets : assets[id].filed => assets[id].key # NoKey
  /\ ~overtaken =>
       \A id \in DOMAIN assets \ cutShort :
         assets[id].filed /\ ~Deleting(id) => assets[id].key \in files

\* The library starts empty.
LEMMA MediaInitInv == MediaInit => MediaInv
<1>. SUFFICES ASSUME MediaInit PROVE MediaInv
  OBVIOUS
<1>1. JobsOK /\ \A r \in Requests : job[r].step = "idle"
  BY Starting DEF MediaInit
<1>2. \A r \in Requests : MediaJobFits(job[r])
  BY <1>1 DEF MediaJobFits
<1>3. files = {} /\ DOMAIN assets = {} /\ lastAsset \in Nat
  BY DEF MediaInit
<1>. QED
  BY <1>1, <1>2, <1>3 DEF MediaInv

\* A file that is stored takes no other's key.
LEMMA StoreFileStep ==
  ASSUME MediaInv, StoreFile
  PROVE  MediaInv'
<1>1. PICK key \in MediaKeys :
        /\ files' = files \cup {key}
        /\ UNCHANGED <<assets, lastAsset, cutShort, job, asked, overtaken>>
  BY DEF StoreFile, inFlight
<1>. QED
  BY <1>1 DEF MediaInv, MediaJobFits, Deleting, JobsOK

\* No other asset has the key of a new one, and no request knows its id.
LEMMA CreateAssetStep ==
  ASSUME MediaInv, CreateAsset
  PROVE  MediaInv'
<1>1. PICK key \in MediaKeys \cup {NoKey} :
        /\ key # NoKey => ~recorded(key)
        /\ lastAsset' = lastAsset + 1
        /\ assets' = Saved(assets, lastAsset',
                           [key |-> key, filed |-> key \in files])
        /\ UNCHANGED <<files, cutShort, job, asked, overtaken>>
  BY DEF CreateAsset, inFlight
<1>. PICK new : new = lastAsset + 1
  OBVIOUS
<1>. PICK row : row = [key |-> key, filed |-> key \in files]
  OBVIOUS
<1>2. /\ lastAsset' = new /\ new \in Nat /\ new \in 1 .. new
      /\ \A i \in 1 .. lastAsset : i \in 1 .. new /\ i # new
  BY <1>1 DEF MediaInv
<1>3. row.key = key /\ row.filed = (key \in files)
  OBVIOUS
<1>4. /\ DOMAIN assets' = DOMAIN assets \cup {new}
      /\ assets'[new] = row
      /\ \A i \in DOMAIN assets : i # new /\ assets'[i] = assets[i]
  BY <1>1, <1>2 DEF Saved, MediaInv
<1>5. \A r \in Requests : MediaJobFits(job[r])'
  BY <1>1, <1>2, <1>4 DEF MediaInv, MediaJobFits
<1>6. \A id, other \in DOMAIN assets' :
        assets'[id].key = assets'[other].key /\ assets'[id].key # NoKey
          => id = other
  BY <1>1, <1>3, <1>4 DEF MediaInv, recorded
<1>7. \A id \in DOMAIN assets' : assets'[id].filed => assets'[id].key # NoKey
  BY <1>3, <1>4, NoKeyAssumption DEF MediaInv
<1>8. ~overtaken' =>
        \A id \in DOMAIN assets' \ cutShort' :
          assets'[id].filed /\ ~Deleting(id)' => assets'[id].key \in files'
  <2>1. assets'[new].key = key /\ (assets'[new].filed => key \in files)
    BY <1>3, <1>4
  <2>2. \A id : Deleting(id)' <=> Deleting(id)
    BY <1>1 DEF Deleting
  <2>3. ASSUME ~overtaken', NEW id \in DOMAIN assets' \ cutShort',
               assets'[id].filed, ~Deleting(id)'
        PROVE  assets'[id].key \in files'
    <3>1. CASE id = new
      BY <1>1, <2>1, <2>3, <3>1
    <3>2. CASE id # new
      BY <1>1, <1>4, <2>2, <2>3, <3>2 DEF MediaInv
    <3>. QED
      BY <3>1, <3>2
  <2>. QED
    BY <2>3
<1>9. \A id \in DOMAIN assets' : id \in 1 .. lastAsset'
  BY <1>2, <1>4 DEF MediaInv
<1>. QED
  BY <1>1, <1>2, <1>5, <1>6, <1>7, <1>8, <1>9 DEF MediaInv, JobsOK

\* A removal knows the key of the asset it goes for.
LEMMA AskRemoveAssetStep ==
  ASSUME MediaInv, NEW r \in Requests, AskRemoveAsset(r)
  PROVE  MediaInv'
<1>1. PICK id \in DOMAIN assets :
        /\ Begin(r, [step |-> IF assets[id].key = NoKey THEN "row" ELSE "unlink",
                     id |-> id, key |-> assets[id].key])
        /\ UNCHANGED mediaVars
  BY DEF AskRemoveAsset
<1>. PICK what :
        what = [step |-> IF assets[id].key = NoKey THEN "row" ELSE "unlink",
                id |-> id, key |-> assets[id].key]
  OBVIOUS
<1>2. /\ DOMAIN what = {"step", "id", "key"}
      /\ what["step"] \in {"row", "unlink"}
      /\ what["step"] = "row" => assets[id].key = NoKey
      /\ what["id"] = id /\ what["key"] = assets[id].key
  OBVIOUS
<1>3. /\ JobsOK' /\ overtaken' = overtaken /\ job[r].step = "idle"
      /\ \A q \in Requests \ {r} : job'[q] = job[q]
      /\ DOMAIN what \subseteq DOMAIN job'[r]
      /\ \A f \in DOMAIN what : job'[r][f] = what[f]
  BY <1>1, <1>2, Beginning DEF MediaInv
<1>4. \A q \in Requests : MediaJobFits(job[q])'
  BY <1>1, <1>2, <1>3 DEF MediaInv, MediaJobFits, mediaVars
<1>5. \A other : Deleting(other) => Deleting(other)'
  BY <1>3 DEF Deleting
<1>. QED
  BY <1>1, <1>3, <1>4, <1>5 DEF MediaInv, mediaVars

\* The file that goes is that of the asset whose row goes next.
LEMMA UnlinkStep ==
  ASSUME MediaInv, NEW r \in Requests, Unlink(r)
  PROVE  MediaInv'
<1>. PICK stale \in BOOLEAN : stale = (job[r].id \notin DOMAIN assets)
  OBVIOUS
<1>1. /\ job[r].step = "unlink" /\ Proceed(r, [step |-> "row"], stale)
      /\ files' \subseteq files /\ files \ {job[r].key} \subseteq files'
      /\ UNCHANGED <<assets, lastAsset, cutShort>>
  BY DEF Unlink, At
<1>2. /\ JobsOK' /\ overtaken' = (overtaken \/ stale)
      /\ \A q \in Requests \ {r} : job'[q] = job[q]
      /\ job'[r].step = "row"
      /\ DOMAIN job'[r] = DOMAIN job[r]
      /\ \A f \in DOMAIN job[r] \ {"step"} : job'[r][f] = job[r][f]
  BY <1>1, Stepping DEF MediaInv
<1>3. MediaJobFits(job[r])
  BY DEF MediaInv
<1>4. job'[r].id = job[r].id /\ job'[r].key = job[r].key
  BY <1>1, <1>2, <1>3 DEF MediaJobFits
<1>5. \A q \in Requests : MediaJobFits(job[q])'
  BY <1>1, <1>2, <1>3, <1>4 DEF MediaInv, MediaJobFits
<1>6. \A id : Deleting(id)' <=> Deleting(id) \/ id = job[r].id
  BY <1>1, <1>2, <1>4 DEF Deleting
<1>7. ASSUME ~overtaken', NEW id \in DOMAIN assets \ cutShort,
             assets[id].filed, ~Deleting(id)'
      PROVE  assets[id].key \in files'
  <2>1. ~overtaken /\ job[r].id \in DOMAIN assets
    BY <1>2, <1>7
  <2>2. id # job[r].id /\ assets[id].key \in files
    BY <1>6, <1>7, <2>1 DEF MediaInv
  <2>3. assets[id].key # job[r].key
    BY <1>1, <1>3, <1>7, <2>1, <2>2 DEF MediaInv, MediaJobFits
  <2>. QED
    BY <1>1, <2>2, <2>3
<1>. QED
  BY <1>1, <1>2, <1>5, <1>7 DEF MediaInv

\* The row goes, and with it the asset's claim to a file.
LEMMA DeleteAssetStep ==
  ASSUME MediaInv, NEW r \in Requests, DeleteAsset(r)
  PROVE  MediaInv'
<1>1. /\ job[r].step = "row" /\ Settle(r, FALSE)
      /\ assets' = Removed(assets, job[r].id)
      /\ UNCHANGED <<files, lastAsset, cutShort>>
  BY DEF DeleteAsset, At, End
<1>2. /\ JobsOK' /\ overtaken' = (overtaken \/ FALSE)
      /\ \A q \in Requests \ {r} : job'[q] = job[q]
      /\ job'[r].step = "idle"
  BY <1>1, Settling DEF MediaInv
<1>3. /\ DOMAIN assets' = DOMAIN assets \ {job[r].id}
      /\ \A i \in DOMAIN assets' : assets'[i] = assets[i]
  BY <1>1 DEF Removed
<1>4. \A q \in Requests : MediaJobFits(job[q])'
  BY <1>1, <1>2, <1>3 DEF MediaInv, MediaJobFits
<1>5. \A id : Deleting(id) /\ id # job[r].id => Deleting(id)'
  BY <1>2 DEF Deleting
<1>6. ~overtaken' => ~overtaken
  BY <1>2
<1>. QED
  BY <1>1, <1>2, <1>3, <1>4, <1>5, <1>6 DEF MediaInv

\* A removal that stops before the row is remembered in cutShort.
LEMMA AbandonMediaStep ==
  ASSUME MediaInv, NEW r \in Requests, AbandonMedia(r)
  PROVE  MediaInv'
<1>1. /\ Settle(r, FALSE) /\ UNCHANGED <<files, lastAsset, assets>>
      /\ cutShort \subseteq cutShort'
      /\ job[r].step = "row" => job[r].id \in cutShort'
  BY DEF AbandonMedia, Interrupt, End, At
<1>2. /\ JobsOK' /\ overtaken' = (overtaken \/ FALSE)
      /\ \A q \in Requests \ {r} : job'[q] = job[q]
      /\ job'[r].step = "idle"
  BY <1>1, Settling DEF MediaInv
<1>3. \A q \in Requests : MediaJobFits(job[q])'
  BY <1>1, <1>2 DEF MediaInv, MediaJobFits
<1>4. \A id : Deleting(id) /\ id \notin cutShort' => Deleting(id)'
  BY <1>1, <1>2 DEF Deleting
<1>5. ~overtaken' => ~overtaken
  BY <1>2
<1>. QED
  BY <1>1, <1>2, <1>3, <1>4, <1>5 DEF MediaInv

\* Every step of the library preserves the invariant.
LEMMA MediaNextInv ==
  MediaInv /\ [MediaNext]_<<mediaVars, inFlight>> => MediaInv'
<1>. SUFFICES ASSUME MediaInv, [MediaNext]_<<mediaVars, inFlight>>
              PROVE  MediaInv'
  OBVIOUS
<1>1. CASE UNCHANGED <<mediaVars, inFlight>>
  BY <1>1 DEF MediaInv, MediaJobFits, JobsOK, Deleting, mediaVars, inFlight
<1>. QED
  BY <1>1, StoreFileStep, CreateAssetStep, AskRemoveAssetStep, UnlinkStep,
    DeleteAssetStep, AbandonMediaStep DEF MediaNext

\* "Row exists, bytes don't" comes only from an asset's own removal, under way,
\* stopped or late, for any number of removals at once.
THEOREM AssetsHaveFiles == MediaSpec => []MediaHasItsFile
<1>1. MediaInv => MediaHasItsFile
  BY DEF MediaInv, MediaHasItsFile, Deleting, At, streamDocument
<1>. QED
  BY <1>1, MediaInitInv, MediaNextInv, PTL DEF MediaSpec

\* The library starts with no file and no asset.
LEMMA MediaInitTypes == MediaInit => MediaTypeOK
BY AssetsBound DEF MediaInit, MediaTypeOK

\* Only keys that were given out have files.
LEMMA MediaNextTypes ==
  MediaTypeOK /\ [MediaNext]_<<mediaVars, inFlight>> => MediaTypeOK'
<1>. SUFFICES ASSUME MediaTypeOK, [MediaNext]_<<mediaVars, inFlight>>
              PROVE  MediaTypeOK'
  OBVIOUS
<1>1. CASE UNCHANGED mediaVars
  BY <1>1 DEF MediaTypeOK, mediaVars
<1>2. CASE StoreFile
  BY <1>2 DEF StoreFile, MediaTypeOK
<1>3. CASE CreateAsset
  <2>1. PICK key \in MediaKeys \cup {NoKey} :
          /\ lastAsset < MaxAssets /\ lastAsset' = lastAsset + 1
          /\ assets' = Saved(assets, lastAsset', [key |-> key, filed |-> key \in files])
    BY <1>3 DEF CreateAsset
  <2>2. PICK filed \in BOOLEAN : filed = (key \in files)
    <3>1. (key \in files) \in BOOLEAN
      OBVIOUS
    <3>. QED
      BY <3>1, Zenon
  <2>3. PICK row : row = [key |-> key, filed |-> filed]
    OBVIOUS
  <2>4. PICK new : new = lastAsset'
    OBVIOUS
  <2>5. assets' = Saved(assets, new, row)
    BY <2>1, <2>2, <2>3, <2>4, Zenon
  <2>6. /\ DOMAIN assets' = DOMAIN assets \cup {new} /\ assets'[new] = row
        /\ \A i \in DOMAIN assets \ {new} : assets'[i] = assets[i]
    BY <2>5 DEF Saved
  <2>7. row.key = key /\ row.filed \in BOOLEAN
    BY <2>2, <2>3
  <2>8. /\ lastAsset' \in 0 .. MaxAssets /\ new \in 1 .. lastAsset'
        /\ 1 .. lastAsset \subseteq 1 .. lastAsset'
    BY <2>1, <2>4, AssetsBound DEF MediaTypeOK
  <2>9. UNCHANGED <<files, issued>>
    BY <1>3 DEF CreateAsset
  <2>. QED
    BY <2>6, <2>7, <2>8, <2>9 DEF MediaTypeOK
<1>4. ASSUME NEW r \in Requests, Unlink(r) PROVE MediaTypeOK'
  BY <1>4 DEF Unlink, MediaTypeOK
<1>5. ASSUME NEW r \in Requests, DeleteAsset(r) PROVE MediaTypeOK'
  <2>1. /\ assets' = Removed(assets, job[r].id)
        /\ UNCHANGED <<files, issued, lastAsset>>
    BY <1>5 DEF DeleteAsset
  <2>2. /\ DOMAIN assets' \subseteq DOMAIN assets
        /\ \A i \in DOMAIN assets' : assets'[i] = assets[i]
    BY <2>1 DEF Removed
  <2>. QED
    BY <2>1, <2>2 DEF MediaTypeOK
<1>6. ASSUME NEW r \in Requests, AbandonMedia(r) PROVE MediaTypeOK'
  BY <1>6 DEF AbandonMedia, MediaTypeOK
<1>7. ASSUME NEW r \in Requests, AskRemoveAsset(r) PROVE UNCHANGED mediaVars
  BY <1>7 DEF AskRemoveAsset
<1>. QED
  BY <1>1, <1>2, <1>3, <1>4, <1>5, <1>6, <1>7 DEF MediaNext

(***************************************************************************)
(* Roles and admins.                                                       *)
(***************************************************************************)

\* The seeding script meets SUPER_ADMIN first and remembers it.
AccessJobFits(j) ==
  /\ j.step \in {"idle", "clear", "grant", "rename", "upsert"}
  /\ j.step \in {"clear", "grant"} =>
       /\ {"id", "keys", "seeding"} \subseteq DOMAIN j
       /\ j.seeding \in BOOLEAN
       /\ j.seeding => {"todo", "super"} \subseteq DOMAIN j /\ j.super # {}
  /\ j.step = "upsert" =>
       /\ {"todo", "super"} \subseteq DOMAIN j
       /\ j.super # {} \/ (j.todo # <<>> /\ Head(j.todo) = "SUPER_ADMIN")

Granting(id) == \E r \in Requests : job[r].step = "grant" /\ job[r].id = id

\* A role never has more than was last asked for it, and no less unless its edit
\* is between its calls or stopped there.
RoleIsAsAsked(id) ==
  /\ roles[id].permissions \subseteq granted[id]
  /\ id \notin halfway /\ ~Granting(id) => roles[id].permissions = granted[id]

RolesFit ==
  /\ DOMAIN granted = DOMAIN roles
  /\ \A id \in DOMAIN roles : DOMAIN roles[id] = {"name", "permissions"}

AdminsFit == \A a \in DOMAIN admins : admins[a].role \in DOMAIN roles

AccessInv ==
  /\ JobsOK
  /\ \A r \in Requests : AccessJobFits(job[r])
  /\ RolesFit
  /\ AdminsFit
  /\ ~overtaken => \A id \in DOMAIN roles : RoleIsAsAsked(id)

\* There are no roles before the seed and no requests.
LEMMA AccessInitInv == AccessInit => AccessInv
<1>. SUFFICES ASSUME AccessInit PROVE AccessInv
  OBVIOUS
<1>1. JobsOK /\ \A r \in Requests : job[r].step = "idle"
  BY Starting DEF AccessInit
<1>2. \A r \in Requests : AccessJobFits(job[r])
  BY <1>1 DEF AccessJobFits
<1>3. /\ roles = [id \in 1 .. lastRole |->
                    [name |-> SeedOrder[id],
                     permissions |-> SeedGrants[SeedOrder[id]]]]
      /\ granted = [id \in 1 .. lastRole |-> roles[id].permissions]
      /\ lastRole \in {0, Len(SeedOrder)}
  BY DEF AccessInit
<1>4. RolesFit /\ \A id \in DOMAIN roles : RoleIsAsAsked(id)
  BY <1>3 DEF RolesFit, RoleIsAsAsked
<1>5. AdminsFit
  <2>1. CASE lastRole = 0
    <3>1. admins = <<>>
      BY <2>1 DEF AccessInit
    <3>. QED
      BY <3>1 DEF AdminsFit
  <2>2. CASE lastRole # 0
    <3>1. admins = Saved(<<>>, SeedAdmin, [role |-> 1, isActive |-> TRUE])
      BY <2>2 DEF AccessInit
    <3>2. DOMAIN admins = {SeedAdmin} /\ admins[SeedAdmin].role = 1
      BY <3>1 DEF Saved
    <3>3. 1 \in 1 .. lastRole
      BY <1>3, <2>2, SeedAssumption
    <3>. QED
      BY <1>3, <3>2, <3>3 DEF AdminsFit
  <2>. QED
    BY <2>1, <2>2
<1>. QED
  BY <1>1, <1>2, <1>4, <1>5 DEF AccessInv

\* A new role has what was asked for it.
LEMMA NewRoleFits ==
  ASSUME AccessInv, NEW name, NEW keys, NewRole(name, keys)
  PROVE  /\ RolesFit'
         /\ DOMAIN roles \subseteq DOMAIN roles'
         /\ \A id \in DOMAIN roles' :
              \/ /\ id \in DOMAIN roles
                 /\ roles'[id] = roles[id] /\ granted'[id] = granted[id]
              \/ roles'[id].permissions = keys /\ granted'[id] = keys
<1>. PICK new : new = lastRole'
  OBVIOUS
<1>. PICK row : row = [name |-> name, permissions |-> keys]
  OBVIOUS
<1>1. /\ roles' = Saved(roles, new, row)
      /\ granted' = Saved(granted, new, keys)
  BY DEF NewRole
<1>2. DOMAIN row = {"name", "permissions"} /\ row.permissions = keys
  OBVIOUS
<1>3. /\ DOMAIN roles' = DOMAIN roles \cup {new}
      /\ DOMAIN granted' = DOMAIN granted \cup {new}
      /\ roles'[new] = row /\ granted'[new] = keys
      /\ \A id \in DOMAIN roles \ {new} : roles'[id] = roles[id]
      /\ \A id \in DOMAIN granted \ {new} : granted'[id] = granted[id]
  BY <1>1 DEF Saved
<1>. QED
  BY <1>2, <1>3 DEF AccessInv, RolesFit

\* A new role has what it was created with.
LEMMA CreateRoleStep ==
  ASSUME AccessInv, CreateRole
  PROVE  AccessInv'
<1>1. PICK name \in Names, keys \in SUBSET Permissions : NewRole(name, keys)
  BY DEF CreateRole
<1>2. UNCHANGED <<admins, halfway, job, overtaken>>
  BY DEF CreateRole, inFlight
<1>3. /\ RolesFit'
      /\ DOMAIN roles \subseteq DOMAIN roles'
      /\ \A id \in DOMAIN roles' :
           \/ /\ id \in DOMAIN roles
              /\ roles'[id] = roles[id] /\ granted'[id] = granted[id]
           \/ roles'[id].permissions = keys /\ granted'[id] = keys
  BY <1>1, NewRoleFits
<1>4. AdminsFit'
  BY <1>2, <1>3 DEF AccessInv, AdminsFit
<1>5. ~overtaken' => \A id \in DOMAIN roles' : RoleIsAsAsked(id)'
  BY <1>2, <1>3 DEF AccessInv, RoleIsAsAsked, Granting
<1>. QED
  BY <1>2, <1>3, <1>4, <1>5 DEF AccessInv, JobsOK, AccessJobFits

\* A role that goes takes its grants along.
LEMMA RemoveRoleStep ==
  ASSUME AccessInv, RemoveRole
  PROVE  AccessInv'
<1>1. PICK id \in DOMAIN roles :
        /\ \A a \in DOMAIN admins : admins[a].role # id
        /\ roles' = Removed(roles, id) /\ granted' = Removed(granted, id)
  BY DEF RemoveRole
<1>2. UNCHANGED <<admins, halfway, job, overtaken>>
  BY DEF RemoveRole, inFlight
<1>3. /\ DOMAIN roles' = DOMAIN roles \ {id}
      /\ DOMAIN granted' = DOMAIN granted \ {id}
      /\ \A i \in DOMAIN roles' : roles'[i] = roles[i]
      /\ \A i \in DOMAIN granted' : granted'[i] = granted[i]
  BY <1>1 DEF Removed
<1>4. RolesFit' /\ AdminsFit'
  BY <1>1, <1>2, <1>3 DEF AccessInv, RolesFit, AdminsFit
<1>5. ~overtaken' => \A i \in DOMAIN roles' : RoleIsAsAsked(i)'
  BY <1>2, <1>3 DEF AccessInv, RolesFit, RoleIsAsAsked, Granting
<1>. QED
  BY <1>2, <1>4, <1>5 DEF AccessInv, JobsOK, AccessJobFits

\* An admin's row changes no role.
LEMMA SaveAdminStep ==
  ASSUME AccessInv, SaveAdmin \/ RemoveAdmin
  PROVE  AccessInv'
<1>1. UNCHANGED <<roles, granted, halfway, job, overtaken>>
  BY DEF SaveAdmin, RemoveAdmin, inFlight
<1>2. AdminsFit'
  <2>1. CASE SaveAdmin
    <3>1. PICK a \in Admins, role \in DOMAIN roles, isActive \in BOOLEAN :
            admins' = Saved(admins, a, [role |-> role, isActive |-> isActive])
      BY <2>1 DEF SaveAdmin
    <3>. QED
      BY <1>1, <3>1 DEF AccessInv, AdminsFit, Saved
  <2>2. CASE RemoveAdmin
    BY <1>1, <2>2 DEF AccessInv, AdminsFit, RemoveAdmin, Removed
  <2>. QED
    BY <2>1, <2>2
<1>. QED
  BY <1>1, <1>2 DEF AccessInv, JobsOK, AccessJobFits, RolesFit, RoleIsAsAsked,
    Granting

\* A request moved on, and not away from granting; the rows are as they were.
LEMMA AccessMoves ==
  ASSUME AccessInv, UNCHANGED <<roles, granted, halfway>>, AdminsFit',
         NEW r \in Requests, JobsOK', ~overtaken' => ~overtaken,
         \A q \in Requests \ {r} : job'[q] = job[q],
         job[r].step # "grant", AccessJobFits(job[r])'
  PROVE  AccessInv'
<1>1. \A q \in Requests : AccessJobFits(job[q])'
  BY DEF AccessInv, AccessJobFits
<1>2. \A id : Granting(id) => Granting(id)'
  BY DEF Granting
<1>3. RolesFit'
  BY DEF AccessInv, RolesFit
<1>4. ~overtaken' => \A id \in DOMAIN roles' : RoleIsAsAsked(id)'
  BY <1>2 DEF AccessInv, RoleIsAsAsked
<1>. QED
  BY <1>1, <1>3, <1>4 DEF AccessInv

\* An edit of a role has written nothing when it begins.
LEMMA AskUpdateRoleStep ==
  ASSUME AccessInv, NEW r \in Requests, AskUpdateRole(r)
  PROVE  AccessInv'
<1>1. PICK id \in DOMAIN roles, keys \in SUBSET Permissions,
           name \in {{}} \cup {{n} : n \in Names}, step \in {"clear", "rename"} :
        Begin(r, [step |-> step, id |-> id, keys |-> keys, name |-> name,
                  seeding |-> FALSE])
  BY DEF AskUpdateRole
<1>. PICK what : what = [step |-> step, id |-> id, keys |-> keys, name |-> name,
                         seeding |-> FALSE]
  OBVIOUS
<1>2. /\ DOMAIN what = {"step", "id", "keys", "name", "seeding"}
      /\ what["step"] \in {"clear", "rename"} /\ what["seeding"] = FALSE
  OBVIOUS
<1>3. /\ JobsOK' /\ overtaken' = overtaken /\ job[r].step = "idle"
      /\ \A q \in Requests \ {r} : job'[q] = job[q]
      /\ DOMAIN what \subseteq DOMAIN job'[r]
      /\ \A f \in DOMAIN what : job'[r][f] = what[f]
  BY <1>1, <1>2, Beginning DEF AccessInv
<1>4. AccessJobFits(job[r])'
  BY <1>2, <1>3 DEF AccessJobFits
<1>5. UNCHANGED <<roles, granted, halfway, admins>>
  BY DEF AskUpdateRole, accessVars
<1>6. AdminsFit'
  BY <1>5 DEF AccessInv, AdminsFit
<1>. QED
  BY <1>3, <1>4, <1>5, <1>6, AccessMoves

\* The seed has written nothing when it begins.
LEMMA AskSeedStep ==
  ASSUME AccessInv, NEW r \in Requests, AskSeed(r)
  PROVE  AccessInv'
<1>. PICK what : what = [step |-> "upsert", todo |-> SeedOrder, super |-> {}]
  OBVIOUS
<1>1. Begin(r, what) /\ UNCHANGED <<roles, granted, halfway, admins>>
  BY DEF AskSeed, accessVars
<1>2. /\ DOMAIN what = {"step", "todo", "super"}
      /\ what["step"] = "upsert" /\ what["todo"] = SeedOrder
  OBVIOUS
<1>3. /\ JobsOK' /\ overtaken' = overtaken /\ job[r].step = "idle"
      /\ \A q \in Requests \ {r} : job'[q] = job[q]
      /\ DOMAIN what \subseteq DOMAIN job'[r]
      /\ \A f \in DOMAIN what : job'[r][f] = what[f]
  BY <1>1, <1>2, Beginning DEF AccessInv
<1>4. AccessJobFits(job[r])'
  BY <1>2, <1>3, SeedAssumption DEF AccessJobFits
<1>5. AdminsFit'
  BY <1>1 DEF AccessInv, AdminsFit
<1>. QED
  BY <1>1, <1>3, <1>4, <1>5, AccessMoves

\* The first admin changes no role.
LEMMA SeedAdminStep ==
  ASSUME AccessInv, NEW r \in Requests, SeedAdminUser(r)
  PROVE  AccessInv'
<1>1. /\ job[r].step = "upsert" /\ job[r].todo = <<>>
      /\ job[r].super \subseteq DOMAIN roles
      /\ admins' = IF SeedAdmin \in DOMAIN admins THEN admins
                   ELSE Saved(admins, SeedAdmin,
                              [role |-> CHOOSE id \in job[r].super : TRUE,
                               isActive |-> TRUE])
      /\ Settle(r, FALSE) /\ UNCHANGED <<roles, granted, halfway>>
  BY DEF SeedAdminUser, At, End
<1>2. job[r].super # {}
  BY <1>1 DEF AccessInv, AccessJobFits
<1>3. (CHOOSE id \in job[r].super : TRUE) \in DOMAIN roles
  BY <1>1, <1>2
<1>4. AdminsFit'
  BY <1>1, <1>3 DEF AccessInv, AdminsFit, Saved
<1>5. /\ JobsOK' /\ overtaken' = (overtaken \/ FALSE)
      /\ \A q \in Requests \ {r} : job'[q] = job[q]
      /\ job'[r].step = "idle"
  BY <1>1, Settling DEF AccessInv
<1>6. AccessJobFits(job[r])'
  BY <1>5 DEF AccessJobFits
<1>. QED
  BY <1>1, <1>4, <1>5, <1>6, AccessMoves

\* The last call of an edit leaves the grants alone.
LEMMA RenameRoleStep ==
  ASSUME AccessInv, NEW r \in Requests, RenameRole(r)
  PROVE  AccessInv'
<1>. PICK id : id = job[r].id
  OBVIOUS
<1>1. PICK name : roles' = [roles EXCEPT ![id].name = name]
  BY DEF RenameRole
<1>2. /\ job[r].step = "rename" /\ Settle(r, FALSE)
      /\ UNCHANGED <<admins, granted, halfway>>
  BY DEF RenameRole, At, End
<1>3. /\ DOMAIN roles' = DOMAIN roles
      /\ \A i \in DOMAIN roles :
           /\ DOMAIN roles'[i] = DOMAIN roles[i]
           /\ roles'[i].permissions = roles[i].permissions
  BY <1>1 DEF AccessInv, RolesFit
<1>4. RolesFit' /\ AdminsFit'
  BY <1>2, <1>3 DEF AccessInv, RolesFit, AdminsFit
<1>5. /\ JobsOK' /\ overtaken' = (overtaken \/ FALSE)
      /\ \A q \in Requests \ {r} : job'[q] = job[q]
      /\ job'[r].step = "idle"
  BY <1>2, Settling DEF AccessInv
<1>6. \A q \in Requests : AccessJobFits(job[q])'
  BY <1>5 DEF AccessInv, AccessJobFits
<1>7. \A i : Granting(i) => Granting(i)'
  BY <1>2, <1>5 DEF Granting
<1>8. ~overtaken' => \A i \in DOMAIN roles' : RoleIsAsAsked(i)'
  BY <1>2, <1>3, <1>5, <1>7 DEF AccessInv, RoleIsAsAsked
<1>. QED
  BY <1>4, <1>5, <1>6, <1>8 DEF AccessInv

\* Cleared, a role has nothing and is being granted what was asked for.
LEMMA ClearRoleStep ==
  ASSUME AccessInv, NEW r \in Requests, ClearRole(r)
  PROVE  AccessInv'
<1>. PICK id : id = job[r].id
  OBVIOUS
<1>1. /\ job[r].step = "clear" /\ id \in DOMAIN roles
      /\ roles' = [roles EXCEPT ![id].permissions = {}]
      /\ granted' = [granted EXCEPT ![id] = job[r].keys]
      /\ Proceed(r, [step |-> "grant"], FALSE)
      /\ UNCHANGED <<admins, halfway>>
  BY DEF ClearRole, At, Continue, clearedPermissions
<1>2. /\ DOMAIN roles' = DOMAIN roles /\ DOMAIN granted' = DOMAIN granted
      /\ \A i \in DOMAIN roles : DOMAIN roles'[i] = DOMAIN roles[i]
      /\ roles'[id].permissions = {}
      /\ \A i \in DOMAIN roles \ {id} :
           roles'[i] = roles[i] /\ granted'[i] = granted[i]
  BY <1>1 DEF AccessInv, RolesFit
<1>3. /\ JobsOK' /\ overtaken' = (overtaken \/ FALSE)
      /\ \A q \in Requests \ {r} : job'[q] = job[q]
      /\ job'[r].step = "grant"
      /\ DOMAIN job'[r] = DOMAIN job[r]
      /\ \A f \in DOMAIN job[r] \ {"step"} : job'[r][f] = job[r][f]
  BY <1>1, Stepping DEF AccessInv
<1>4. AccessJobFits(job[r])
  BY DEF AccessInv
<1>5. AccessJobFits(job[r])' /\ job'[r].id = id
  BY <1>1, <1>3, <1>4 DEF AccessJobFits
<1>6. \A q \in Requests : AccessJobFits(job[q])'
  BY <1>3, <1>5 DEF AccessInv, AccessJobFits
<1>7. Granting(id)' /\ \A i : Granting(i) => Granting(i)'
  BY <1>1, <1>3, <1>5 DEF Granting
<1>8. ~overtaken' => \A i \in DOMAIN roles' : RoleIsAsAsked(i)'
  BY <1>1, <1>2, <1>3, <1>7 DEF AccessInv, RoleIsAsAsked
<1>9. RolesFit' /\ AdminsFit'
  BY <1>1, <1>2 DEF AccessInv, RolesFit, AdminsFit
<1>. QED
  BY <1>3, <1>6, <1>8, <1>9 DEF AccessInv

\* Granted, it has all that was asked for, if that is what is granted.
LEMMA GrantRoleStep ==
  ASSUME AccessInv, NEW r \in Requests, GrantRole(r)
  PROVE  AccessInv'
<1>. PICK id : id = job[r].id
  OBVIOUS
<1>. PICK keys : keys = job[r].keys
  OBVIOUS
<1>. PICK stale \in BOOLEAN : stale = (granted[id] # keys)
  OBVIOUS
<1>. PICK s : s = IF job[r].seeding THEN "upsert" ELSE "rename"
  OBVIOUS
<1>1. /\ job[r].step = "grant" /\ id \in DOMAIN roles
      /\ roles' = [roles EXCEPT ![id].permissions = @ \cup keys]
      /\ Proceed(r, [step |-> s], stale)
      /\ halfway' = halfway \ {id}
      /\ UNCHANGED <<admins, granted>>
  BY DEF GrantRole, At
<1>2. /\ DOMAIN roles' = DOMAIN roles
      /\ \A i \in DOMAIN roles : DOMAIN roles'[i] = DOMAIN roles[i]
      /\ roles'[id].permissions = roles[id].permissions \cup keys
      /\ \A i \in DOMAIN roles \ {id} : roles'[i] = roles[i]
  BY <1>1 DEF AccessInv, RolesFit
<1>3. /\ JobsOK' /\ overtaken' = (overtaken \/ stale)
      /\ \A q \in Requests \ {r} : job'[q] = job[q]
      /\ job'[r].step = s
      /\ DOMAIN job'[r] = DOMAIN job[r]
      /\ \A f \in DOMAIN job[r] \ {"step"} : job'[r][f] = job[r][f]
  BY <1>1, Stepping DEF AccessInv
<1>4. AccessJobFits(job[r])
  BY DEF AccessInv
<1>5. AccessJobFits(job[r])'
  <2>1. CASE job[r].seeding
    BY <1>1, <1>3, <1>4, <2>1 DEF AccessJobFits
  <2>2. CASE ~job[r].seeding
    BY <1>1, <1>3, <1>4, <2>2 DEF AccessJobFits
  <2>. QED
    BY <2>1, <2>2
<1>6. \A q \in Requests : AccessJobFits(job[q])'
  BY <1>3, <1>5 DEF AccessInv, AccessJobFits
<1>7. \A i : Granting(i) /\ i # id => Granting(i)'
  BY <1>3 DEF Granting
<1>8. ~overtaken' => \A i \in DOMAIN roles' : RoleIsAsAsked(i)'
  <2>. SUFFICES ASSUME ~overtaken', NEW i \in DOMAIN roles'
                PROVE  RoleIsAsAsked(i)'
    OBVIOUS
  <2>1. ~overtaken /\ granted[id] = keys
    BY <1>3
  <2>2. CASE i = id
    BY <1>1, <1>2, <2>1, <2>2 DEF AccessInv, RoleIsAsAsked
  <2>3. CASE i # id
    BY <1>1, <1>2, <1>7, <2>1, <2>3 DEF AccessInv, RoleIsAsAsked
  <2>. QED
    BY <2>2, <2>3
<1>9. RolesFit' /\ AdminsFit'
  BY <1>1, <1>2 DEF AccessInv, RolesFit, AdminsFit
<1>. QED
  BY <1>3, <1>6, <1>8, <1>9 DEF AccessInv

\* The seed adds to a role what its list says.
LEMMA SeedRoleStep ==
  ASSUME AccessInv, NEW r \in Requests, SeedRole(r)
  PROVE  AccessInv'
<1>. PICK name : name = Head(job[r].todo)
  OBVIOUS
<1>1. /\ job[r].step = "upsert" /\ job[r].todo # <<>>
      /\ \/ UNCHANGED <<roles, granted>>
         \/ NewRole(name, {})
      /\ UNCHANGED <<admins, halfway>>
  BY DEF SeedRole, At
<1>2. PICK id \in DOMAIN roles' :
        Proceed(r, [step |-> "clear", id |-> id,
                    keys |-> SeedGrants[name], seeding |-> TRUE,
                    todo |-> Tail(job[r].todo),
                    super |-> IF name = "SUPER_ADMIN" THEN {id}
                              ELSE job[r].super], FALSE)
  BY DEF SeedRole, Continue
<1>3. PICK super : super = IF name = "SUPER_ADMIN" THEN {id} ELSE job[r].super
  OBVIOUS
<1>4. PICK what : what = [step |-> "clear", id |-> id,
                         keys |-> SeedGrants[name], seeding |-> TRUE,
                         todo |-> Tail(job[r].todo), super |-> super]
  OBVIOUS
<1>5. /\ DOMAIN what = {"step", "id", "keys", "seeding", "todo", "super"}
      /\ what["step"] = "clear" /\ what["seeding"] = TRUE
      /\ what["super"] = super
  BY <1>4
<1>6. super # {}
  BY <1>1, <1>3 DEF AccessInv, AccessJobFits
<1>7. JobsOK /\ Continue(r, what)
  BY <1>2, <1>3, <1>4 DEF Continue, AccessInv
<1>8. /\ JobsOK' /\ overtaken' = (overtaken \/ FALSE)
      /\ \A q \in Requests \ {r} : job'[q] = job[q]
      /\ DOMAIN job'[r] = DOMAIN what \cup DOMAIN job[r]
      /\ \A f \in DOMAIN what : job'[r][f] = what[f]
  <2>1. Proceed(r, what, FALSE) /\ FALSE \in BOOLEAN
    BY <1>7 DEF Continue
  <2>. QED
    BY <1>7, <2>1, Proceeding
<1>9. AccessJobFits(job[r])'
  BY <1>5, <1>6, <1>8 DEF AccessJobFits
<1>10. \A q \in Requests : AccessJobFits(job[q])'
  BY <1>8, <1>9 DEF AccessInv, AccessJobFits
<1>11. \A i : Granting(i) => Granting(i)'
  BY <1>1, <1>8 DEF Granting
<1>12. /\ RolesFit'
       /\ DOMAIN roles \subseteq DOMAIN roles'
       /\ \A i \in DOMAIN roles' :
            \/ /\ i \in DOMAIN roles
               /\ roles'[i] = roles[i] /\ granted'[i] = granted[i]
            \/ roles'[i].permissions = {} /\ granted'[i] = {}
  <2>1. CASE UNCHANGED <<roles, granted>>
    BY <2>1 DEF AccessInv, RolesFit
  <2>2. CASE NewRole(name, {})
    BY <2>2, NewRoleFits
  <2>. QED
    BY <1>1, <2>1, <2>2
<1>13. AdminsFit'
  BY <1>1, <1>12 DEF AccessInv, AdminsFit
<1>14. ~overtaken' => \A i \in DOMAIN roles' : RoleIsAsAsked(i)'
  <2>. SUFFICES ASSUME ~overtaken', NEW i \in DOMAIN roles'
                PROVE  RoleIsAsAsked(i)'
    OBVIOUS
  <2>1. CASE /\ i \in DOMAIN roles
             /\ roles'[i] = roles[i] /\ granted'[i] = granted[i]
    <3>1. RoleIsAsAsked(i)
      BY <1>8, <2>1 DEF AccessInv
    <3>2. Granting(i) => Granting(i)'
      BY <1>11
    <3>. QED
      BY <1>1, <2>1, <3>1, <3>2 DEF RoleIsAsAsked
  <2>2. CASE roles'[i].permissions = {} /\ granted'[i] = {}
    BY <2>2 DEF RoleIsAsAsked
  <2>. QED
    BY <1>12, <2>1, <2>2
<1>. QED
  BY <1>8, <1>10, <1>12, <1>13, <1>14 DEF AccessInv

\* An edit that stops before it grants leaves the role halfway.
LEMMA AbandonAccessStep ==
  ASSUME AccessInv, NEW r \in Requests, AbandonAccess(r)
  PROVE  AccessInv'
<1>1. /\ Settle(r, FALSE) /\ UNCHANGED <<roles, granted, admins>>
      /\ halfway \subseteq halfway'
      /\ job[r].step = "grant" => job[r].id \in halfway'
  BY DEF AbandonAccess, Interrupt, End, At
<1>2. /\ JobsOK' /\ overtaken' = (overtaken \/ FALSE)
      /\ \A q \in Requests \ {r} : job'[q] = job[q]
      /\ job'[r].step = "idle"
  BY <1>1, Settling DEF AccessInv
<1>3. \A q \in Requests : AccessJobFits(job[q])'
  BY <1>2 DEF AccessInv, AccessJobFits
<1>4. \A i : Granting(i) /\ i \notin halfway' => Granting(i)'
  BY <1>1, <1>2 DEF Granting
<1>5. ~overtaken' => \A i \in DOMAIN roles' : RoleIsAsAsked(i)'
  BY <1>1, <1>2, <1>4 DEF AccessInv, RoleIsAsAsked
<1>6. RolesFit' /\ AdminsFit'
  BY <1>1 DEF AccessInv, RolesFit, AdminsFit
<1>. QED
  BY <1>2, <1>3, <1>5, <1>6 DEF AccessInv

\* Every step of roles and admins preserves the invariant.
LEMMA AccessNextInv ==
  AccessInv /\ [AccessNext]_<<accessVars, inFlight>> => AccessInv'
<1>. SUFFICES ASSUME AccessInv, [AccessNext]_<<accessVars, inFlight>>
              PROVE  AccessInv'
  OBVIOUS
<1>1. CASE UNCHANGED <<accessVars, inFlight>>
  BY <1>1 DEF AccessInv, AccessJobFits, JobsOK, RolesFit, AdminsFit,
    RoleIsAsAsked, Granting, accessVars, inFlight
<1>. QED
  BY <1>1, CreateRoleStep, RemoveRoleStep, SaveAdminStep, AskUpdateRoleStep,
    ClearRoleStep, GrantRoleStep, RenameRoleStep, AskSeedStep, SeedRoleStep,
    SeedAdminStep, AbandonAccessStep DEF AccessNext

\* Nobody passes the guard with a permission the last edit of their role did not
\* ask for, and a role grants all of it once its edit is through, for any number
\* of edits, seedings and interruptions, until two edits of one role overlap.
THEOREM GrantsAreRight == AccessSpec => []GrantsAreAsAsked
<1>1. AccessInv => GrantsAreAsAsked
  <2>. SUFFICES ASSUME AccessInv, ~overtaken PROVE GrantsAreAsAsked
    BY DEF GrantsAreAsAsked
  <2>1. ASSUME NEW a \in DOMAIN admins, NEW key \in Permissions,
               PermissionsGuard(a, key)
        PROVE  roleOf(a).name = "SUPER_ADMIN" \/ key \in granted[admins[a].role]
    BY <2>1 DEF AccessInv, AdminsFit, RoleIsAsAsked, PermissionsGuard, roleOf
  <2>2. ASSUME NEW id \in DOMAIN roles \ halfway,
               \A r \in Requests : At(r, "grant") => job[r].id # id
        PROVE  roles[id].permissions = granted[id]
    BY <2>2 DEF AccessInv, RoleIsAsAsked, Granting, At
  <2>. QED
    BY <2>1, <2>2 DEF GrantsAreAsAsked
<1>. QED
  BY <1>1, AccessInitInv, AccessNextInv, PTL DEF AccessSpec

RoleKind == [name : Names, permissions : SUBSET Permissions]

Seeded == {SeedOrder[i] : i \in DOMAIN SeedOrder}

\* What an edit of a role was asked for, or the seeding script has left to do.
AccessJobKind(j) ==
  /\ j.step \in {"clear", "grant"} =>
       /\ {"keys", "seeding"} \subseteq DOMAIN j
       /\ j.keys \in SUBSET Permissions
       /\ j.seeding => "todo" \in DOMAIN j /\ j.todo \in Seq(Seeded)
       /\ ~j.seeding => "name" \in DOMAIN j /\ j.name \in SUBSET Names
  /\ j.step = "rename" => "name" \in DOMAIN j /\ j.name \in SUBSET Names
  /\ j.step = "upsert" => "todo" \in DOMAIN j /\ j.todo \in Seq(Seeded)

RolesAre ==
  /\ lastRole \in 0 .. MaxRoles
  /\ DOMAIN roles \subseteq 1 .. lastRole
  /\ \A id \in DOMAIN roles : roles[id] \in RoleKind
  /\ \A id, other \in DOMAIN roles : roles[id].name = roles[other].name => id = other

AccessFits ==
  /\ AccessInv
  /\ RolesAre
  /\ DOMAIN admins \subseteq Admins
  /\ \A r \in Requests : AccessJobKind(job[r])

\* Roles that are as they should be are of their types.
LEMMA AccessFitsTypes == AccessFits => AccessTypeOK
<1>. SUFFICES ASSUME AccessFits PROVE AccessTypeOK
  OBVIOUS
<1>1. ASSUME NEW id \in DOMAIN roles
      PROVE  /\ roles[id].name \in Names /\ roles[id].permissions \subseteq Permissions
             /\ Named(roles[id].name) = {id}
  BY <1>1 DEF AccessFits, RolesAre, RoleKind, Named
<1>. QED
  BY <1>1 DEF AccessFits, RolesAre, AccessInv, RolesFit, AdminsFit, AccessTypeOK

\* The seed lists each name once.
LEMMA AccessInitFits == AccessInit => AccessFits
<1>. SUFFICES ASSUME AccessInit PROVE AccessFits
  OBVIOUS
<1>1. AccessInv
  BY AccessInitInv
<1>2. \A r \in Requests : AccessJobKind(job[r])
  <2>1. \A r \in Requests : job[r].step = "idle"
    BY Starting DEF AccessInit
  <2>. QED
    BY <2>1 DEF AccessJobKind
<1>3. /\ roles = [id \in 1 .. lastRole |->
                    [name |-> SeedOrder[id],
                     permissions |-> SeedGrants[SeedOrder[id]]]]
      /\ lastRole \in {0, Len(SeedOrder)}
  BY DEF AccessInit
<1>4. lastRole \in 0 .. MaxRoles /\ 1 .. lastRole \subseteq DOMAIN SeedOrder
  BY <1>3, SeedAssumption, RolesBound
<1>5. RolesAre
  <2>1. DOMAIN roles = 1 .. lastRole
    BY <1>3
  <2>2. ASSUME NEW id \in 1 .. lastRole
        PROVE  roles[id] \in RoleKind /\ roles[id].name = SeedOrder[id]
    <3>1. roles[id] = [name |-> SeedOrder[id],
                       permissions |-> SeedGrants[SeedOrder[id]]]
      BY <1>3
    <3>2. SeedOrder[id] \in Names /\ SeedGrants[SeedOrder[id]] \subseteq Permissions
      BY <1>4, SeedAssumption
    <3>. QED
      BY <3>1, <3>2 DEF RoleKind
  <2>3. \A id, other \in 1 .. lastRole :
          SeedOrder[id] = SeedOrder[other] => id = other
    BY <1>4, SeedAssumption
  <2>. QED
    BY <1>4, <2>1, <2>2, <2>3 DEF RolesAre
<1>6. DOMAIN admins \subseteq Admins
  <2>1. admins = <<>> \/ admins = Saved(<<>>, SeedAdmin, [role |-> 1, isActive |-> TRUE])
    BY DEF AccessInit
  <2>2. DOMAIN admins \subseteq {SeedAdmin}
    BY <2>1 DEF Saved
  <2>. QED
    BY <2>2, SeedAssumption
<1>. QED
  BY <1>1, <1>2, <1>5, <1>6 DEF AccessFits

\* A new role takes a name that is free.
LEMMA NewRoleKind ==
  ASSUME RolesAre, NEW name \in Names, NEW keys \in SUBSET Permissions,
         NewRole(name, keys)
  PROVE  RolesAre'
<1>. PICK row : row = [name |-> name, permissions |-> keys]
  OBVIOUS
<1>. PICK new : new = lastRole'
  OBVIOUS
<1>1. /\ Named(name) = {} /\ lastRole < MaxRoles /\ lastRole' = lastRole + 1
      /\ roles' = Saved(roles, new, row)
  BY DEF NewRole
<1>2. row \in RoleKind /\ row.name = name
  BY DEF RoleKind
<1>3. /\ DOMAIN roles' = DOMAIN roles \cup {new} /\ roles'[new] = row
      /\ \A id \in DOMAIN roles \ {new} : roles'[id] = roles[id]
  BY <1>1 DEF Saved
<1>4. /\ lastRole' \in 0 .. MaxRoles /\ new \in 1 .. lastRole'
      /\ 1 .. lastRole \subseteq 1 .. lastRole' /\ new \notin 1 .. lastRole
  BY <1>1, RolesBound DEF RolesAre
<1>5. \A id \in DOMAIN roles : roles[id].name # name
  BY <1>1 DEF Named
<1>. QED
  BY <1>2, <1>3, <1>4, <1>5 DEF RolesAre

\* Roles that keep their names, or take one that is free, stay unique.
LEMMA ChangedRole ==
  ASSUME RolesAre, NEW id, UNCHANGED lastRole, NEW row \in RoleKind,
         roles' = [roles EXCEPT ![id] = row],
         id \in DOMAIN roles,
         \A other \in DOMAIN roles : roles[other].name = row.name => other = id
  PROVE  RolesAre'
BY DEF RolesAre

\* A request that knows its kind of work leaves the others theirs.
LEMMA KindsKept ==
  ASSUME \A q \in Requests : AccessJobKind(job[q]), NEW r \in Requests,
         \A q \in Requests \ {r} : job'[q] = job[q], AccessJobKind(job'[r])
  PROVE  \A q \in Requests : AccessJobKind(job[q])'
BY DEF AccessJobKind

\* A request that answers has nothing left to do.
LEMMA SettledKind ==
  ASSUME AccessFits, NEW r \in Requests, Settle(r, FALSE)
  PROVE  \A q \in Requests : AccessJobKind(job[q])'
<1>1. JobsOK /\ FALSE \in BOOLEAN /\ \A q \in Requests : AccessJobKind(job[q])
  BY DEF AccessFits, AccessInv
<1>2. /\ \A q \in Requests \ {r} : job'[q] = job[q]
      /\ job'[r].step = "idle"
  BY <1>1, Settling
<1>3. AccessJobKind(job'[r])
  BY <1>2 DEF AccessJobKind
<1>. QED
  BY <1>1, <1>2, <1>3, KindsKept

\* All of that but what GrantsAreAsAsked rests on.
AccessKept ==
  /\ RolesAre /\ DOMAIN admins \subseteq Admins
  /\ \A r \in Requests : AccessJobKind(job[r])

\* Roles and admins written in one query are of their kinds.
LEMMA RolesChange ==
  ASSUME AccessFits, CreateRole \/ RemoveRole \/ SaveAdmin \/ RemoveAdmin
  PROVE  AccessKept'
<1>1. \A q \in Requests : AccessJobKind(job[q])'
  <2>1. job' = job
    BY DEF CreateRole, RemoveRole, SaveAdmin, RemoveAdmin, inFlight
  <2>. QED
    BY <2>1 DEF AccessFits, AccessJobKind
<1>2. CASE CreateRole
  <2>1. PICK name \in Names, keys \in SUBSET Permissions : NewRole(name, keys)
    BY <1>2 DEF CreateRole
  <2>2. RolesAre'
    BY <2>1, NewRoleKind DEF AccessFits
  <2>. QED
    BY <1>1, <1>2, <2>2 DEF CreateRole, AccessKept, AccessFits
<1>3. CASE RemoveRole
  <2>1. PICK id \in DOMAIN roles : roles' = Removed(roles, id)
    BY <1>3 DEF RemoveRole
  <2>2. /\ DOMAIN roles' \subseteq DOMAIN roles
        /\ \A i \in DOMAIN roles' : roles'[i] = roles[i]
    BY <2>1 DEF Removed
  <2>3. UNCHANGED <<lastRole, admins>>
    BY <1>3 DEF RemoveRole
  <2>. QED
    BY <1>1, <2>2, <2>3 DEF AccessKept, AccessFits, RolesAre
<1>4. CASE SaveAdmin \/ RemoveAdmin
  <2>1. DOMAIN admins' \subseteq Admins
    BY <1>4 DEF SaveAdmin, RemoveAdmin, Saved, Removed, AccessFits
  <2>2. UNCHANGED <<roles, lastRole>>
    BY <1>4 DEF SaveAdmin, RemoveAdmin
  <2>. QED
    BY <1>1, <2>1, <2>2 DEF AccessKept, AccessFits, RolesAre
<1>. QED
  BY <1>2, <1>3, <1>4

\* A request on roles begins with names and permissions that there are.
LEMMA AskAccessKind ==
  ASSUME AccessFits, NEW r \in Requests, AskUpdateRole(r) \/ AskSeed(r)
  PROVE  AccessKept'
<1>1. JobsOK /\ \A q \in Requests : AccessJobKind(job[q])
  BY DEF AccessFits, AccessInv
<1>2. PICK what : Begin(r, what) /\ "step" \in DOMAIN what /\ AccessJobKind(what)
  <2>1. CASE AskUpdateRole(r)
    <3>1. PICK id \in DOMAIN roles, keys \in SUBSET Permissions,
               name \in {{}} \cup {{n} : n \in Names}, step \in {"clear", "rename"} :
            Begin(r, [step |-> step, id |-> id, keys |-> keys, name |-> name,
                      seeding |-> FALSE])
      BY <2>1 DEF AskUpdateRole
    <3>2. name \in SUBSET Names
      OBVIOUS
    <3>. DEFINE what == [step |-> step, id |-> id, keys |-> keys, name |-> name,
                         seeding |-> FALSE]
    <3>3. "step" \in DOMAIN what /\ AccessJobKind(what)
      BY <3>2 DEF AccessJobKind
    <3>. QED
      BY <3>1, <3>3
  <2>2. CASE AskSeed(r)
    <3>. DEFINE what == [step |-> "upsert", todo |-> SeedOrder, super |-> {}]
    <3>1. Begin(r, what)
      BY <2>2 DEF AskSeed
    <3>2. SeedOrder \in Seq(Seeded)
      BY SeedAssumption DEF Seeded
    <3>3. "step" \in DOMAIN what /\ AccessJobKind(what)
      BY <3>2 DEF AccessJobKind
    <3>. QED
      BY <3>1, <3>3
  <2>. QED
    BY <2>1, <2>2
<1>3. /\ \A q \in Requests \ {r} : job'[q] = job[q]
      /\ DOMAIN what \subseteq DOMAIN job'[r]
      /\ \A f \in DOMAIN what : job'[r][f] = what[f]
  BY <1>1, <1>2, Beginning
<1>4. AccessJobKind(job'[r])
  <2>1. job'[r].step = what.step
    BY <1>2, <1>3
  <2>2. \A f \in {"keys", "seeding", "todo", "name"} :
          f \in DOMAIN what => f \in DOMAIN job'[r] /\ job'[r][f] = what[f]
    BY <1>3
  <2>. QED
    BY <1>2, <2>1, <2>2 DEF AccessJobKind
<1>5. \A q \in Requests : AccessJobKind(job[q])'
  BY <1>1, <1>3, <1>4, KindsKept
<1>6. UNCHANGED accessVars
  BY DEF AskUpdateRole, AskSeed
<1>. QED
  BY <1>5, <1>6 DEF AccessKept, AccessFits, RolesAre, accessVars

\* An edit replaces the permissions of one role and goes on to its next call.
LEMMA EditedKind ==
  ASSUME AccessFits, NEW r \in Requests, job[r].step \in {"clear", "grant"},
         NEW id \in DOMAIN roles, NEW permissions \in SUBSET Permissions,
         roles' = [roles EXCEPT ![id].permissions = permissions],
         UNCHANGED <<lastRole, admins>>,
         NEW s, NEW stale \in BOOLEAN, Proceed(r, [step |-> s], stale),
         s = "grant" \/ s = (IF job[r].seeding THEN "upsert" ELSE "rename")
  PROVE  AccessKept'
<1>1. JobsOK /\ AccessJobKind(job[r]) /\ \A q \in Requests : AccessJobKind(job[q])
  BY DEF AccessFits, AccessInv
<1>2. RolesAre'
  <2>. PICK row : row = [roles[id] EXCEPT !.permissions = permissions]
    OBVIOUS
  <2>1. roles[id] \in RoleKind
    BY DEF AccessFits, RolesAre
  <2>2. row \in RoleKind /\ row.name = roles[id].name
    BY <2>1 DEF RoleKind
  <2>3. roles' = [roles EXCEPT ![id] = row]
    OBVIOUS
  <2>4. RolesAre /\ \A other \in DOMAIN roles : roles[other].name = row.name => other = id
    BY <2>2 DEF AccessFits, RolesAre
  <2>. QED
    BY <2>2, <2>3, <2>4, ChangedRole
<1>3. /\ \A q \in Requests \ {r} : job'[q] = job[q]
      /\ job'[r].step = s /\ DOMAIN job'[r] = DOMAIN job[r]
      /\ \A f \in DOMAIN job[r] \ {"step"} : job'[r][f] = job[r][f]
  BY <1>1, Stepping
<1>4. AccessJobKind(job'[r])
  BY <1>1, <1>3 DEF AccessJobKind
<1>5. \A q \in Requests : AccessJobKind(job[q])'
  BY <1>1, <1>3, <1>4, KindsKept
<1>. QED
  BY <1>2, <1>5 DEF AccessKept, AccessFits

\* A cleared role keeps its name.
LEMMA ClearKind ==
  ASSUME AccessFits, NEW r \in Requests, ClearRole(r)
  PROVE  AccessKept'
<1>. PICK id : id = job[r].id
  OBVIOUS
<1>1. /\ job[r].step = "clear" /\ id \in DOMAIN roles
      /\ roles' = [roles EXCEPT ![id].permissions = {}]
      /\ Proceed(r, [step |-> "grant"], FALSE)
      /\ UNCHANGED <<lastRole, admins>>
  BY DEF ClearRole, At, Continue, clearedPermissions
<1>2. /\ {} \in SUBSET Permissions /\ FALSE \in BOOLEAN
      /\ job[r].step \in {"clear", "grant"}
      /\ "grant" = "grant"
  BY <1>1
<1>. QED
  BY <1>1, <1>2, EditedKind, Zenon

\* What is granted is a permission.
LEMMA GrantKind ==
  ASSUME AccessFits, NEW r \in Requests, GrantRole(r)
  PROVE  AccessKept'
<1>. PICK id : id = job[r].id
  OBVIOUS
<1>. PICK keys : keys = job[r].keys
  OBVIOUS
<1>. PICK stale \in BOOLEAN : stale = (granted[id] # keys)
  OBVIOUS
<1>. PICK s : s = IF job[r].seeding THEN "upsert" ELSE "rename"
  OBVIOUS
<1>. PICK permissions : permissions = roles[id].permissions \cup keys
  OBVIOUS
<1>1. /\ job[r].step = "grant" /\ id \in DOMAIN roles
      /\ roles' = [roles EXCEPT ![id].permissions = permissions]
      /\ Proceed(r, [step |-> s], stale)
      /\ UNCHANGED <<lastRole, admins>>
  BY DEF GrantRole, At
<1>2. permissions \in SUBSET Permissions
  BY <1>1 DEF AccessFits, AccessJobKind, RolesAre, RoleKind
<1>. QED
  BY <1>1, <1>2, EditedKind

\* A role is renamed to nobody else's name.
LEMMA RenameKind ==
  ASSUME AccessFits, NEW r \in Requests, RenameRole(r)
  PROVE  AccessKept'
<1>. PICK id : id = job[r].id
  OBVIOUS
<1>. PICK names : names = job[r].name
  OBVIOUS
<1>1. /\ job[r].step = "rename" /\ id \in DOMAIN roles /\ Settle(r, FALSE)
      /\ \A n \in names : Named(n) \subseteq {id}
      /\ roles' = [roles EXCEPT ![id].name =
                     IF names = {} THEN @ ELSE CHOOSE n \in names : TRUE]
      /\ UNCHANGED <<lastRole, admins>>
  BY DEF RenameRole, At, End
<1>2. names \in SUBSET Names
  BY <1>1 DEF AccessFits, AccessJobKind
<1>3. roles[id] \in RoleKind /\ RolesAre
  BY <1>1 DEF AccessFits, RolesAre
<1>4. PICK name : name = IF names = {} THEN roles[id].name ELSE CHOOSE n \in names : TRUE
  OBVIOUS
<1>5. name \in Names /\ \A other \in DOMAIN roles : roles[other].name = name => other = id
  <2>1. CASE names = {}
    BY <1>1, <1>3, <1>4, <2>1 DEF RoleKind, RolesAre
  <2>2. CASE names # {}
    <3>1. name \in names
      BY <1>4, <2>2
    <3>. QED
      BY <1>1, <1>2, <3>1 DEF Named
  <2>. QED
    BY <2>1, <2>2
<1>. PICK row : row = [roles[id] EXCEPT !.name = name]
  OBVIOUS
<1>6. row \in RoleKind /\ row.name = name
  BY <1>3, <1>5 DEF RoleKind
<1>7. roles' = [roles EXCEPT ![id] = row]
  <2>1. roles' = [roles EXCEPT ![id].name = name]
    BY <1>1, <1>4, Zenon
  <2>. QED
    BY <2>1
<1>8. RolesAre'
  <2>1. id \in DOMAIN roles /\ UNCHANGED lastRole
    BY <1>1, Zenon
  <2>. QED
    BY <1>3, <1>5, <1>6, <1>7, <2>1, ChangedRole
<1>. QED
  BY <1>1, <1>8, SettledKind DEF AccessKept, AccessFits

\* The seed creates the roles on its list that are missing.
LEMMA SeedRoleKind ==
  ASSUME AccessFits, NEW r \in Requests, SeedRole(r)
  PROVE  AccessKept'
<1>. PICK name : name = Head(job[r].todo)
  OBVIOUS
<1>1. /\ job[r].step = "upsert" /\ job[r].todo # <<>> /\ UNCHANGED admins
      /\ UNCHANGED <<roles, lastRole>> \/ NewRole(name, {})
  BY DEF SeedRole, At
<1>2. JobsOK /\ AccessJobKind(job[r]) /\ \A q \in Requests : AccessJobKind(job[q])
  BY DEF AccessFits, AccessInv
<1>3. job[r].todo \in Seq(Seeded)
  BY <1>1, <1>2 DEF AccessJobKind
<1>4. name \in Seeded /\ Tail(job[r].todo) \in Seq(Seeded)
  BY <1>1, <1>3
<1>5. name \in Names /\ SeedGrants[name] \in SUBSET Permissions
  BY <1>4, SeedAssumption DEF Seeded
<1>6. RolesAre'
  <2>1. CASE UNCHANGED <<roles, lastRole>>
    BY <2>1 DEF AccessFits, RolesAre
  <2>2. CASE NewRole(name, {})
    BY <1>5, <2>2, NewRoleKind DEF AccessFits
  <2>. QED
    BY <1>1, <2>1, <2>2
<1>7. PICK id \in DOMAIN roles' :
        Continue(r, [step |-> "clear", id |-> id,
                     keys |-> SeedGrants[name], seeding |-> TRUE,
                     todo |-> Tail(job[r].todo),
                     super |-> IF name = "SUPER_ADMIN" THEN {id}
                               ELSE job[r].super])
  BY DEF SeedRole
<1>. DEFINE what == [step |-> "clear", id |-> id,
                     keys |-> SeedGrants[name], seeding |-> TRUE,
                     todo |-> Tail(job[r].todo),
                     super |-> IF name = "SUPER_ADMIN" THEN {id}
                               ELSE job[r].super]
<1>8. /\ DOMAIN what = {"step", "id", "keys", "seeding", "todo", "super"}
      /\ what["step"] = "clear" /\ what["keys"] = SeedGrants[name]
      /\ what["seeding"] = TRUE /\ what["todo"] = Tail(job[r].todo)
  OBVIOUS
<1>9. Proceed(r, what, FALSE) /\ FALSE \in BOOLEAN
  BY <1>7 DEF Continue
<1>. HIDE DEF what
<1>10. /\ \A q \in Requests \ {r} : job'[q] = job[q]
       /\ DOMAIN job'[r] = DOMAIN what \cup DOMAIN job[r]
       /\ \A f \in DOMAIN what : job'[r][f] = what[f]
  BY <1>2, <1>9, Proceeding
<1>11. AccessJobKind(job'[r])
  BY <1>4, <1>5, <1>8, <1>10 DEF AccessJobKind
<1>12. \A q \in Requests : AccessJobKind(job[q])'
  BY <1>2, <1>10, <1>11, KindsKept
<1>. QED
  BY <1>1, <1>6, <1>12 DEF AccessKept, AccessFits

\* The seeded admin is one of the admins; a throw changes no role.
LEMMA EndsAccessKind ==
  ASSUME AccessFits, NEW r \in Requests, SeedAdminUser(r) \/ AbandonAccess(r)
  PROVE  AccessKept'
<1>1. Settle(r, FALSE) /\ UNCHANGED <<roles, lastRole>>
  BY DEF SeedAdminUser, AbandonAccess, Interrupt, End
<1>2. DOMAIN admins' \subseteq Admins
  <2>1. DOMAIN admins' \subseteq DOMAIN admins \cup {SeedAdmin}
    BY DEF SeedAdminUser, AbandonAccess, Saved
  <2>. QED
    BY <2>1, SeedAssumption DEF AccessFits
<1>. QED
  BY <1>1, <1>2, SettledKind DEF AccessKept, AccessFits, RolesAre

\* Every step of roles and admins keeps them of their kinds.
LEMMA AccessNextFits ==
  AccessFits /\ [AccessNext]_<<accessVars, inFlight>> => AccessFits'
<1>. SUFFICES ASSUME AccessFits, [AccessNext]_<<accessVars, inFlight>>
              PROVE  AccessKept'
  BY AccessNextInv DEF AccessFits, AccessKept
<1>1. CASE UNCHANGED <<accessVars, inFlight>>
  BY <1>1 DEF AccessFits, AccessKept, RolesAre, AccessJobKind, accessVars, inFlight
<1>. QED
  BY <1>1, RolesChange, AskAccessKind, ClearKind, GrantKind, RenameKind, SeedRoleKind,
    EndsAccessKind DEF AccessNext

(***************************************************************************)
(* Cost sheets.                                                            *)
(***************************************************************************)

\* A sheet's lines have the cost of their frozen quantity and rate.
Priced(lines) ==
  \A i \in DOMAIN lines :
    lines[i].lineCost = lineCost(lines[i].quantity, lines[i].rate)

IsSheet(s) ==
  /\ DOMAIN s = {"version", "isActive", "lines", "making", "yield", "costPerUnit"}
  /\ s.version \in Nat /\ s.isActive \in BOOLEAN
  /\ Priced(s.lines)

SheetsFit(rows, last) ==
  /\ rows = [id \in DOMAIN rows |-> rows[id]]
  /\ DOMAIN rows \subseteq 1 .. last
  /\ \A id \in DOMAIN rows : IsSheet(rows[id])
  /\ \A id, other \in DOMAIN rows :
       rows[id].version = rows[other].version => id = other

\* No sheet says a cost that is not that of its own lines.
SheetsCosted(rows) ==
  \A id \in DOMAIN rows :
    rows[id].costPerUnit
      = sheetTotals(rows[id].lines, rows[id].making, rows[id].yield)

ActiveOf(rows) == {id \in DOMAIN rows : rows[id].isActive}

IsNewest(rows, ids, id) ==
  id \in ids /\ \A i \in ids : rows[i].version <= rows[id].version

NewestActive(rows) ==
  DOMAIN rows # {} =>
    \E id : IsNewest(rows, DOMAIN rows, id) /\ ActiveOf(rows) = {id}

Creating == {"create", "deactivate", "insert"}
Removing == {"delete", "fallback", "reactivate"}

\* What a request carries, and that it read before now.
SheetJobFits(j, rev) ==
  /\ j.step \in {"idle", "correct"} \cup Creating \cup Removing
  /\ j.step \in Creating =>
       /\ {"was", "lines", "making", "yield", "version"} \subseteq DOMAIN j
       /\ j.was \in Nat /\ j.was <= rev /\ j.version \in Nat
       /\ Priced(j.lines)
  /\ j.step = "correct" =>
       /\ {"id", "replacing", "lines", "making", "yield"} \subseteq DOMAIN j
       /\ Priced(j.lines)
  /\ j.step \in Removing =>
       /\ {"id", "was", "isActive"} \subseteq DOMAIN j
       /\ j.was \in Nat /\ j.was <= rev

\* What a request has read is still so, if nothing has committed since.
SheetJobFresh(j, rows, rev) ==
  /\ j.step \in Creating /\ j.was = rev =>
       \A id \in DOMAIN rows : rows[id].version < j.version
  /\ j.step = "deactivate" /\ j.was = rev => j.rows = ActiveOf(rows)
  /\ j.step = "insert" /\ j.was = rev => j.held = ActiveOf(rows)
  /\ j.step \in Removing /\ j.was = rev =>
       j.id \in DOMAIN rows /\ j.isActive = rows[j.id].isActive
  /\ j.step \in {"fallback", "reactivate"} /\ j.was = rev => j.isActive
  /\ j.step = "reactivate" /\ j.was = rev =>
       IsNewest(rows, DOMAIN rows \ {j.id}, j.fallback)

SheetsInv ==
  /\ JobsOK
  /\ revision \in Nat /\ lastSheet \in Nat
  /\ SheetsFit(sheets, lastSheet)
  /\ \A r \in Requests : SheetJobFits(job[r], revision)
  /\ \A r \in Requests : SheetJobFresh(job[r], sheets, revision)
  /\ ~overtaken => SheetsCosted(sheets) /\ NewestActive(sheets)

\* Of some sheets with versions of their own one is the newest.
LEMMA NewestExists ==
  ASSUME NEW rows, NEW last \in Nat, SheetsFit(rows, last),
         NEW ids \in SUBSET DOMAIN rows, ids # {}
  PROVE  \E id : IsNewest(rows, ids, id)
<1>. DEFINE Good == {T \in SUBSET ids : T = {} \/ \E id : IsNewest(rows, T, id)}
<1>1. IsFiniteSet(ids)
  <2>1. IsFiniteSet(1 .. last)
    BY FS_Interval
  <2>2. ids \subseteq 1 .. last
    BY DEF SheetsFit
  <2>. QED
    BY <2>1, <2>2, FS_Subset
<1>2. {} \in Good
  OBVIOUS
<1>3. ASSUME NEW T \in SUBSET ids, NEW x \in ids \ T, T \in Good
      PROVE  T \cup {x} \in Good
  <2>1. \A id \in ids : rows[id].version \in Nat
    BY DEF SheetsFit, IsSheet
  <2>2. CASE T = {}
    <3>1. IsNewest(rows, T \cup {x}, x)
      BY <2>1, <2>2 DEF IsNewest
    <3>. QED
      BY <3>1
  <2>3. CASE T # {}
    <3>1. PICK id : IsNewest(rows, T, id)
      BY <1>3, <2>3
    <3>2. IsNewest(rows, T \cup {x}, IF rows[x].version <= rows[id].version
                                      THEN id ELSE x)
      BY <2>1, <3>1 DEF IsNewest
    <3>. QED
      BY <3>2
  <2>. QED
    BY <2>2, <2>3
<1>4. \A T \in SUBSET ids : T \in Good
  <2>. HIDE DEF Good
  <2>. QED
    BY <1>1, <1>2, <1>3, ElementInduction
<1>. QED
  BY <1>4

\* The query for the newest finds it, and there is only one.
LEMMA NewestFound ==
  ASSUME SheetsFit(sheets, lastSheet), lastSheet \in Nat,
         NEW ids \in SUBSET DOMAIN sheets, ids # {}
  PROVE  /\ IsNewest(sheets, ids, Newest(ids))
         /\ \A id : IsNewest(sheets, ids, id) => id = Newest(ids)
<1>1. \E id \in ids : \A i \in ids : sheets[i].version <= sheets[id].version
  BY NewestExists DEF IsNewest
<1>2. IsNewest(sheets, ids, Newest(ids))
  BY <1>1 DEF Newest, IsNewest
<1>3. ASSUME NEW id, IsNewest(sheets, ids, id) PROVE id = Newest(ids)
  <2>1. /\ id \in DOMAIN sheets /\ Newest(ids) \in DOMAIN sheets
        /\ sheets[id].version <= sheets[Newest(ids)].version
        /\ sheets[Newest(ids)].version <= sheets[id].version
    BY <1>2, <1>3 DEF IsNewest
  <2>2. sheets[id].version \in Nat /\ sheets[Newest(ids)].version \in Nat
    BY <2>1 DEF SheetsFit, IsSheet
  <2>3. sheets[id].version = sheets[Newest(ids)].version
    BY <2>1, <2>2
  <2>. QED
    BY <2>1, <2>3 DEF SheetsFit
<1>. QED
  BY <1>2, <1>3

\* A form's lines are priced.
LEMMA BuiltLinesPriced == \A items : Priced(buildLines(items))
BY DEF Priced, buildLines

\* A product starts without sheets, or with the last one entered active.
LEMMA SheetsInitInv == SheetsInit => SheetsInv
<1>. SUFFICES ASSUME SheetsInit PROVE SheetsInv
  OBVIOUS
<1>1. JobsOK /\ ~overtaken /\ \A r \in Requests : job[r].step = "idle"
  BY Starting DEF SheetsInit
<1>2. lastSheet \in Nat /\ revision = 0
  BY EnteredAssumption DEF SheetsInit
<1>3. PICK items \in SheetLines, making \in Making, yield \in Yields :
        sheets = [id \in 1..lastSheet |->
                   [version |-> id, isActive |-> id = lastSheet,
                    lines |-> buildLines(items), making |-> making,
                    yield |-> yield,
                    costPerUnit |-> sheetTotals(buildLines(items), making,
                                                yield)]]
  BY DEF SheetsInit
<1>4. PICK lines : lines = buildLines(items)
  OBVIOUS
<1>5. Priced(lines)
  BY <1>4, BuiltLinesPriced
<1>6. /\ DOMAIN sheets = 1 .. lastSheet
      /\ sheets = [id \in DOMAIN sheets |-> sheets[id]]
      /\ \A id \in 1 .. lastSheet :
           /\ DOMAIN sheets[id] = {"version", "isActive", "lines", "making",
                                   "yield", "costPerUnit"}
           /\ sheets[id].version = id /\ sheets[id].isActive = (id = lastSheet)
           /\ sheets[id].lines = lines /\ sheets[id].making = making
           /\ sheets[id].yield = yield
           /\ sheets[id].costPerUnit = sheetTotals(lines, making, yield)
  BY <1>3, <1>4
<1>7. SheetsFit(sheets, lastSheet) /\ SheetsCosted(sheets)
  <2>1. \A id \in 1 .. lastSheet : sheets[id].version \in Nat
    BY <1>6
  <2>2. \A id \in 1 .. lastSheet : IsSheet(sheets[id])
    BY <1>5, <1>6, <2>1 DEF IsSheet
  <2>3. SheetsFit(sheets, lastSheet)
    BY <1>6, <2>2 DEF SheetsFit
  <2>. QED
    BY <1>6, <2>3 DEF SheetsCosted
<1>8. NewestActive(sheets)
  <2>. SUFFICES ASSUME DOMAIN sheets # {}
                PROVE  \E id : IsNewest(sheets, DOMAIN sheets, id)
                                 /\ ActiveOf(sheets) = {id}
    BY DEF NewestActive
  <2>1. lastSheet \in DOMAIN sheets
    BY <1>2, <1>6
  <2>2. IsNewest(sheets, DOMAIN sheets, lastSheet)
    BY <1>2, <1>6, <2>1 DEF IsNewest
  <2>3. ActiveOf(sheets) = {lastSheet}
    BY <1>2, <1>6, <2>1 DEF ActiveOf
  <2>. QED
    BY <2>2, <2>3
<1>9. \A r \in Requests : /\ SheetJobFits(job[r], revision)
                          /\ SheetJobFresh(job[r], sheets, revision)
  <2>. SUFFICES ASSUME NEW r \in Requests
                PROVE  /\ SheetJobFits(job[r], revision)
                       /\ SheetJobFresh(job[r], sheets, revision)
    OBVIOUS
  <2>1. /\ job[r].step = "idle"
        /\ job[r].step \notin Creating \cup Removing
        /\ job[r].step \notin {"correct", "deactivate", "insert", "fallback",
                               "reactivate"}
    BY <1>1 DEF Creating, Removing
  <2>. QED
    BY <2>1 DEF SheetJobFits, SheetJobFresh
<1>. QED
  BY <1>1, <1>2, <1>7, <1>8, <1>9 DEF SheetsInv

\* A request that is idle says nothing.
LEMMA IdleSheetJob ==
  ASSUME NEW j, j.step = "idle", NEW rows, NEW rev
  PROVE  SheetJobFits(j, rev) /\ SheetJobFresh(j, rows, rev)
<1>1. /\ j.step \notin Creating \cup Removing
      /\ j.step \notin {"correct", "deactivate", "insert", "fallback",
                       "reactivate"}
  BY DEF Creating, Removing
<1>. QED
  BY <1>1 DEF SheetJobFits, SheetJobFresh

\* Where the sheets keep their versions and flags, every reading stays fresh.
LEMMA SameFlags ==
  ASSUME NEW rows, NEW new, DOMAIN new = DOMAIN rows,
         \A id \in DOMAIN rows : /\ new[id].version = rows[id].version
                                 /\ new[id].isActive = rows[id].isActive,
         NEW j, NEW rev
  PROVE  /\ SheetJobFresh(j, rows, rev) => SheetJobFresh(j, new, rev)
         /\ NewestActive(rows) => NewestActive(new)
<1>1. ActiveOf(new) = ActiveOf(rows)
  BY DEF ActiveOf
<1>2. \A ids \in SUBSET DOMAIN rows : \A id :
        IsNewest(new, ids, id) <=> IsNewest(rows, ids, id)
  BY DEF IsNewest
<1>3. NewestActive(rows) => NewestActive(new)
  BY <1>1, <1>2 DEF NewestActive
<1>4. ASSUME SheetJobFresh(j, rows, rev) PROVE SheetJobFresh(j, new, rev)
  <2>1. \A id : IsNewest(rows, DOMAIN rows \ {j.id}, id)
              => IsNewest(new, DOMAIN new \ {j.id}, id)
    BY <1>2
  <2>. QED
    BY <1>1, <1>4, <2>1 DEF SheetJobFresh
<1>. QED
  BY <1>3, <1>4

\* After a commit nothing that was read is taken for fresh.
LEMMA CommitAges ==
  ASSUME NEW j, NEW rev \in Nat, SheetJobFits(j, rev), NEW rows
  PROVE  SheetJobFits(j, rev + 1) /\ SheetJobFresh(j, rows, rev + 1)
<1>1. j.step \in Creating \cup Removing => j.was # rev + 1
  BY DEF SheetJobFits
<1>2. {"deactivate", "insert"} \subseteq Creating
      /\ {"fallback", "reactivate"} \subseteq Removing
  BY DEF Creating, Removing
<1>3. SheetJobFits(j, rev + 1)
  BY DEF SheetJobFits
<1>4. SheetJobFresh(j, rows, rev + 1)
  BY <1>1, <1>2 DEF SheetJobFresh
<1>. QED
  BY <1>3, <1>4

\* A commit keeps the invariant, if on fresh readings it leaves one active.
LEMMA CommitStep ==
  ASSUME SheetsInv, NEW r \in Requests, Commit(r), lastSheet' \in Nat,
         SheetsFit(sheets', lastSheet'),
         SheetsCosted(sheets) => SheetsCosted(sheets'),
         revision = job[r].was /\ NewestActive(sheets) => NewestActive(sheets')
  PROVE  SheetsInv'
<1>. PICK stale \in BOOLEAN : stale = (revision # job[r].was)
  OBVIOUS
<1>1. Settle(r, stale) /\ revision' = revision + 1
  BY DEF Commit
<1>2. /\ JobsOK' /\ overtaken' = (overtaken \/ stale)
      /\ \A q \in Requests \ {r} : job'[q] = job[q]
      /\ job'[r] = Idle /\ job'[r].step = "idle"
  BY <1>1, Settling DEF SheetsInv
<1>3. revision \in Nat /\ revision' \in Nat
      /\ \A q \in Requests : SheetJobFits(job[q], revision)
  BY <1>1 DEF SheetsInv
<1>4. ASSUME NEW q \in Requests
      PROVE  /\ SheetJobFits(job'[q], revision')
             /\ SheetJobFresh(job'[q], sheets', revision')
  <2>1. CASE q = r
    BY <1>2, <2>1, IdleSheetJob
  <2>2. CASE q # r
    <3>1. /\ SheetJobFits(job[q], revision + 1)
          /\ SheetJobFresh(job[q], sheets', revision + 1)
      BY <1>3, CommitAges
    <3>. QED
      BY <1>1, <1>2, <2>2, <3>1
  <2>. QED
    BY <2>1, <2>2
<1>5. ~overtaken' => SheetsCosted(sheets') /\ NewestActive(sheets')
  BY <1>2 DEF SheetsInv
<1>. QED
  BY <1>2, <1>3, <1>4, <1>5 DEF SheetsInv

\* A step that leaves the sheets alone has only its own request to look at.
LEMMA ReadingStep ==
  ASSUME SheetsInv, NEW r \in Requests, JobsOK', overtaken' = overtaken,
         UNCHANGED <<sheets, lastSheet, revision>>,
         \A q \in Requests \ {r} : job'[q] = job[q],
         SheetJobFits(job'[r], revision),
         SheetJobFresh(job'[r], sheets, revision)
  PROVE  SheetsInv'
<1>1. \A q \in Requests : /\ SheetJobFits(job'[q], revision')
                          /\ SheetJobFresh(job'[q], sheets', revision')
  BY DEF SheetsInv
<1>. QED
  BY <1>1 DEF SheetsInv

\* A new version follows the newest.
LEMMA AskSheetStep ==
  ASSUME SheetsInv, NEW r \in Requests, AskSheet(r)
  PROVE  SheetsInv'
<1>1. PICK items \in SheetLines, making \in Making, yield \in Yields :
        /\ Begin(r, [step |-> "create", was |-> revision,
                     lines |-> buildLines(items), making |-> making,
                     yield |-> yield,
                     version |-> IF sheets = <<>> THEN 1
                                 ELSE sheets[Newest(DOMAIN sheets)].version + 1])
        /\ UNCHANGED sheetVars
  BY DEF AskSheet
<1>. PICK version : version = IF sheets = <<>> THEN 1
                              ELSE sheets[Newest(DOMAIN sheets)].version + 1
  OBVIOUS
<1>. PICK lines : lines = buildLines(items)
  OBVIOUS
<1>. PICK what : what = [step |-> "create", was |-> revision, lines |-> lines,
                         making |-> making, yield |-> yield,
                         version |-> version]
  OBVIOUS
<1>2. /\ DOMAIN what = {"step", "was", "lines", "making", "yield", "version"}
      /\ what["step"] = "create" /\ what["was"] = revision
      /\ what["lines"] = lines /\ what["version"] = version
  OBVIOUS
<1>3. /\ JobsOK' /\ overtaken' = overtaken /\ job[r].step = "idle"
      /\ \A q \in Requests \ {r} : job'[q] = job[q]
      /\ DOMAIN what \subseteq DOMAIN job'[r]
      /\ \A f \in DOMAIN what : job'[r][f] = what[f]
  <2>1. Begin(r, what)
    BY <1>1
  <2>. QED
    BY <1>2, <2>1, Beginning DEF SheetsInv
<1>4. Priced(lines)
  BY BuiltLinesPriced
<1>5. version \in Nat /\ \A id \in DOMAIN sheets : sheets[id].version < version
  <2>1. CASE DOMAIN sheets = {}
    <3>1. sheets = [id \in {} |-> sheets[id]]
      BY <2>1 DEF SheetsInv, SheetsFit
    <3>2. sheets = <<>>
      BY <3>1
    <3>. QED
      BY <2>1, <3>2
  <2>2. CASE DOMAIN sheets # {}
    <3>1. sheets # <<>>
      BY <2>2
    <3>2. IsNewest(sheets, DOMAIN sheets, Newest(DOMAIN sheets))
      BY <2>2, NewestFound DEF SheetsInv
    <3>3. \A id \in DOMAIN sheets : sheets[id].version \in Nat
      BY DEF SheetsInv, SheetsFit, IsSheet
    <3>. QED
      BY <3>1, <3>2, <3>3 DEF IsNewest
  <2>. QED
    BY <2>1, <2>2
<1>6. /\ job'[r].step = "create" /\ job'[r].was = revision
      /\ job'[r].version = version /\ Priced(job'[r].lines)
      /\ {"was", "lines", "making", "yield", "version"} \subseteq DOMAIN job'[r]
  BY <1>2, <1>3, <1>4
<1>7. revision \in Nat
  BY DEF SheetsInv
<1>8. SheetJobFits(job'[r], revision)
  BY <1>5, <1>6, <1>7 DEF SheetJobFits, Creating, Removing
<1>9. SheetJobFresh(job'[r], sheets, revision)
  BY <1>5, <1>6 DEF SheetJobFresh, Creating, Removing
<1>. QED
  BY <1>1, <1>3, <1>8, <1>9, ReadingStep DEF sheetVars

\* The active sheets are picked; that is all of them, on a fresh reading.
LEMMA PickActiveStep ==
  ASSUME SheetsInv, NEW r \in Requests, PickActive(r)
  PROVE  SheetsInv'
<1>. PICK what : what = [step |-> "deactivate", rows |-> Active]
  OBVIOUS
<1>1. /\ DOMAIN what = {"step", "rows"}
      /\ what["step"] = "deactivate" /\ what["rows"] = ActiveOf(sheets)
  BY DEF Active, ActiveOf
<1>2. /\ job[r].step = "create" /\ Proceed(r, what, FALSE)
      /\ UNCHANGED <<sheets, lastSheet, revision>>
  BY DEF PickActive, At, Continue, sheetVars
<1>3. /\ JobsOK' /\ overtaken' = (overtaken \/ FALSE)
      /\ \A q \in Requests \ {r} : job'[q] = job[q]
      /\ DOMAIN job'[r] = DOMAIN what \cup DOMAIN job[r]
      /\ \A f \in DOMAIN what : job'[r][f] = what[f]
      /\ \A f \in DOMAIN job[r] \ DOMAIN what : job'[r][f] = job[r][f]
  <2>1. JobsOK /\ r \in Requests /\ Proceed(r, what, FALSE)
    BY <1>2 DEF SheetsInv
  <2>. QED
    BY ONLY <2>1, Proceeding
<1>4. SheetJobFits(job[r], revision) /\ SheetJobFresh(job[r], sheets, revision)
  BY DEF SheetsInv
<1>5. /\ {"was", "lines", "making", "yield", "version"} \subseteq DOMAIN job'[r]
      /\ job'[r].was = job[r].was /\ job'[r].version = job[r].version
      /\ job'[r].lines = job[r].lines
      /\ job'[r].step = "deactivate" /\ job'[r].rows = ActiveOf(sheets)
  BY <1>1, <1>2, <1>3, <1>4 DEF SheetJobFits, Creating
<1>6. SheetJobFits(job'[r], revision)
  BY <1>2, <1>4, <1>5 DEF SheetJobFits, Creating, Removing
<1>7. SheetJobFresh(job'[r], sheets, revision)
  <2>1. /\ job[r].step \in Creating /\ job'[r].step \in Creating
        /\ job'[r].step \notin Removing
        /\ job'[r].step \notin {"insert", "fallback", "reactivate"}
    BY <1>2, <1>5 DEF Creating, Removing
  <2>2. job'[r].was = revision =>
          \A id \in DOMAIN sheets : sheets[id].version < job'[r].version
    BY <1>4, <1>5, <2>1 DEF SheetJobFresh
  <2>3. job'[r].was = revision => job'[r].rows = ActiveOf(sheets)
    BY <1>5
  <2>. QED
    BY <2>1, <2>2, <2>3 DEF SheetJobFresh
<1>8. overtaken' = overtaken
  BY <1>3 DEF SheetsInv, JobsOK
<1>. QED
  BY <1>2, <1>3, <1>6, <1>7, <1>8, ReadingStep

\* Of the rows picked those still active are locked.
LEMMA DeactivateStep ==
  ASSUME SheetsInv, NEW r \in Requests, Deactivate(r)
  PROVE  SheetsInv'
<1>. PICK what : what = [step |-> "insert", held |-> job[r].rows \cap Active]
  OBVIOUS
<1>1. /\ DOMAIN what = {"step", "held"}
      /\ what["step"] = "insert"
      /\ what["held"] = job[r].rows \cap ActiveOf(sheets)
  BY DEF Active, ActiveOf
<1>2. /\ job[r].step = "deactivate" /\ Proceed(r, what, FALSE)
      /\ UNCHANGED <<sheets, lastSheet, revision>>
  BY DEF Deactivate, At, Continue, sheetVars
<1>3. /\ JobsOK' /\ overtaken' = (overtaken \/ FALSE)
      /\ \A q \in Requests \ {r} : job'[q] = job[q]
      /\ DOMAIN job'[r] = DOMAIN what \cup DOMAIN job[r]
      /\ \A f \in DOMAIN what : job'[r][f] = what[f]
      /\ \A f \in DOMAIN job[r] \ DOMAIN what : job'[r][f] = job[r][f]
  <2>1. JobsOK /\ r \in Requests /\ Proceed(r, what, FALSE)
    BY <1>2 DEF SheetsInv
  <2>. QED
    BY ONLY <2>1, Proceeding
<1>4. SheetJobFits(job[r], revision) /\ SheetJobFresh(job[r], sheets, revision)
  BY DEF SheetsInv
<1>5. /\ {"was", "lines", "making", "yield", "version"} \subseteq DOMAIN job'[r]
      /\ job'[r].was = job[r].was /\ job'[r].version = job[r].version
      /\ job'[r].lines = job[r].lines
      /\ job'[r].step = "insert"
      /\ job'[r].held = job[r].rows \cap ActiveOf(sheets)
  BY <1>1, <1>2, <1>3, <1>4 DEF SheetJobFits, Creating
<1>6. SheetJobFits(job'[r], revision)
  BY <1>2, <1>4, <1>5 DEF SheetJobFits, Creating, Removing
<1>7. SheetJobFresh(job'[r], sheets, revision)
  <2>1. /\ job[r].step \in Creating /\ job'[r].step \in Creating
        /\ job'[r].step \notin Removing
        /\ job'[r].step \notin {"deactivate", "fallback", "reactivate"}
    BY <1>2, <1>5 DEF Creating, Removing
  <2>2. job'[r].was = revision =>
          \A id \in DOMAIN sheets : sheets[id].version < job'[r].version
    BY <1>4, <1>5, <2>1 DEF SheetJobFresh
  <2>3. job'[r].was = revision => job'[r].held = ActiveOf(sheets)
    BY <1>2, <1>4, <1>5 DEF SheetJobFresh
  <2>. QED
    BY <2>1, <2>2, <2>3 DEF SheetJobFresh
<1>8. overtaken' = overtaken
  BY <1>3 DEF SheetsInv, JobsOK
<1>. QED
  BY <1>2, <1>3, <1>6, <1>7, <1>8, ReadingStep

\* The new version is the newest and, if those it replaces are all that were
\* active, the only active one.
LEMMA InsertSheetStep ==
  ASSUME SheetsInv, NEW r \in Requests, InsertSheet(r)
  PROVE  SheetsInv'
<1>. DEFINE j == job[r]
            row == [version |-> j.version, isActive |-> TRUE, lines |-> j.lines,
                    making |-> j.making, yield |-> j.yield,
                    costPerUnit |-> sheetTotals(j.lines, j.making, j.yield)]
            new == lastSheet + 1
<1>1. /\ j.step = "insert" /\ ~VersionTaken(r) /\ Commit(r)
      /\ lastSheet' = new
      /\ sheets' = Saved(Activated(j.held, FALSE, sheets), new, row)
  BY DEF InsertSheet, At
<1>2. /\ SheetJobFits(j, revision) /\ SheetJobFresh(j, sheets, revision)
      /\ lastSheet \in Nat /\ SheetsFit(sheets, lastSheet)
  BY DEF SheetsInv
<1>3. /\ DOMAIN row = {"version", "isActive", "lines", "making", "yield",
                       "costPerUnit"}
      /\ row.version = j.version /\ row.isActive = TRUE /\ row.lines = j.lines
      /\ row.costPerUnit = sheetTotals(row.lines, row.making, row.yield)
  OBVIOUS
<1>4. j.version \in Nat /\ Priced(j.lines)
  BY <1>1, <1>2 DEF SheetJobFits, Creating
<1>. HIDE DEF row
<1>5. IsSheet(row)
  BY <1>3, <1>4 DEF IsSheet
<1>6. /\ DOMAIN sheets' = DOMAIN sheets \cup {new}
      /\ sheets' = [id \in DOMAIN sheets' |-> sheets'[id]]
      /\ sheets'[new] = row
      /\ \A id \in DOMAIN sheets \ {new} : sheets'[id] =
           IF id \in j.held THEN [sheets[id] EXCEPT !.isActive = FALSE]
           ELSE sheets[id]
  BY <1>1 DEF Saved, Activated
<1>7. new \in Nat /\ new \in 1 .. new /\ new \notin DOMAIN sheets
      /\ DOMAIN sheets \subseteq 1 .. new
  BY <1>2 DEF SheetsFit
<1>8. \A id \in DOMAIN sheets :
        /\ sheets'[id].version = sheets[id].version
        /\ sheets'[id].isActive = (sheets[id].isActive /\ id \notin j.held)
        /\ sheets'[id].lines = sheets[id].lines
        /\ sheets'[id].making = sheets[id].making
        /\ sheets'[id].yield = sheets[id].yield
        /\ sheets'[id].costPerUnit = sheets[id].costPerUnit
        /\ DOMAIN sheets'[id] = DOMAIN sheets[id]
  BY <1>2, <1>6, <1>7 DEF SheetsFit, IsSheet
<1>. HIDE DEF new
<1>9. \A id \in DOMAIN sheets : IsSheet(sheets'[id])
  BY <1>2, <1>8 DEF SheetsFit, IsSheet
<1>10. SheetsFit(sheets', lastSheet')
  <2>1. \A id \in DOMAIN sheets : sheets[id].version # j.version
    BY <1>1 DEF VersionTaken
  <2>2. sheets'[new].version = j.version
    BY <1>3, <1>6
  <2>3. \A id, other \in DOMAIN sheets' :
          sheets'[id].version = sheets'[other].version => id = other
    BY <1>2, <1>6, <1>8, <2>1, <2>2 DEF SheetsFit
  <2>4. \A id \in DOMAIN sheets' : IsSheet(sheets'[id])
    BY <1>5, <1>6, <1>9
  <2>. QED
    BY <1>1, <1>6, <1>7, <2>3, <2>4 DEF SheetsFit
<1>11. SheetsCosted(sheets) => SheetsCosted(sheets')
  BY <1>3, <1>6, <1>7, <1>8 DEF SheetsCosted
<1>12. ASSUME revision = j.was PROVE NewestActive(sheets')
  <2>1. /\ j.held = ActiveOf(sheets)
        /\ \A id \in DOMAIN sheets : sheets[id].version < j.version
    BY <1>1, <1>2, <1>12 DEF SheetJobFresh, Creating
  <2>2. ActiveOf(sheets') = {new}
    <3>1. \A id \in DOMAIN sheets : ~sheets'[id].isActive
      BY <1>8, <2>1 DEF ActiveOf
    <3>. QED
      BY <1>3, <1>6, <3>1 DEF ActiveOf
  <2>3. \A id \in DOMAIN sheets : sheets[id].version \in Nat
    BY <1>2 DEF SheetsFit, IsSheet
  <2>4. \A id \in DOMAIN sheets' : sheets'[id].version <= j.version
    BY <1>3, <1>4, <1>6, <1>8, <2>1, <2>3
  <2>5. IsNewest(sheets', DOMAIN sheets', new)
    BY <1>3, <1>6, <2>4 DEF IsNewest
  <2>. QED
    BY <2>2, <2>5 DEF NewestActive
<1>13. lastSheet' \in Nat
  BY <1>1, <1>7
<1>. QED
  BY <1>1, <1>10, <1>11, <1>12, <1>13, CommitStep

\* A correction has lines that are priced: its own, or the sheet's.
LEMMA AskCorrectionStep ==
  ASSUME SheetsInv, NEW r \in Requests, AskCorrection(r)
  PROVE  SheetsInv'
<1>1. PICK id \in DOMAIN sheets, making \in Making, yield \in Yields :
        /\ \/ \E items \in SheetLines :
                Begin(r, [step |-> "correct", id |-> id, replacing |-> TRUE,
                          lines |-> buildLines(items),
                          making |-> making, yield |-> yield])
           \/ Begin(r, [step |-> "correct", id |-> id, replacing |-> FALSE,
                        lines |-> sheets[id].lines,
                        making |-> making, yield |-> yield])
        /\ UNCHANGED sheetVars
  BY DEF AskCorrection
<1>2. \E lines, replacing :
        /\ Priced(lines)
        /\ Begin(r, [step |-> "correct", id |-> id, replacing |-> replacing,
                     lines |-> lines, making |-> making, yield |-> yield])
  <2>1. Priced(sheets[id].lines)
    BY DEF SheetsInv, SheetsFit, IsSheet
  <2>. QED
    BY <1>1, <2>1, BuiltLinesPriced
<1>3. PICK lines, replacing :
        /\ Priced(lines)
        /\ Begin(r, [step |-> "correct", id |-> id, replacing |-> replacing,
                     lines |-> lines, making |-> making, yield |-> yield])
  BY <1>2
<1>. DEFINE what == [step |-> "correct", id |-> id, replacing |-> replacing,
                     lines |-> lines, making |-> making, yield |-> yield]
<1>4. /\ DOMAIN what = {"step", "id", "replacing", "lines", "making", "yield"}
      /\ what["step"] = "correct" /\ what["lines"] = lines
  OBVIOUS
<1>5. JobsOK /\ r \in Requests /\ Begin(r, what) /\ "step" \in DOMAIN what
  BY <1>3 DEF SheetsInv
<1>. HIDE DEF what
<1>6. /\ JobsOK' /\ overtaken' = overtaken
      /\ job[r].step = "idle"
      /\ \A q \in Requests \ {r} : job'[q] = job[q]
      /\ DOMAIN what \subseteq DOMAIN job'[r]
      /\ \A f \in DOMAIN what : job'[r][f] = what[f]
  BY ONLY <1>5, Beginning
<1>7. /\ job'[r].step = "correct" /\ Priced(job'[r].lines)
      /\ {"id", "replacing", "lines", "making", "yield"} \subseteq DOMAIN job'[r]
      /\ job'[r].step \notin Creating \cup Removing
  BY <1>3, <1>4, <1>6 DEF Creating, Removing
<1>8. SheetJobFits(job'[r], revision)
  BY <1>7 DEF SheetJobFits
<1>9. SheetJobFresh(job'[r], sheets, revision)
  BY <1>7 DEF SheetJobFresh, Creating, Removing
<1>. QED
  BY <1>1, <1>6, <1>8, <1>9, ReadingStep DEF sheetVars

\* The cost written is that of the lines the sheet then has, or the write is
\* called stale; version and flag stay.
LEMMA CorrectStep ==
  ASSUME SheetsInv, NEW r \in Requests, Correct(r)
  PROVE  SheetsInv'
<1>. DEFINE j == job[r]
<1>. PICK stale \in BOOLEAN :
        stale = (~j.replacing /\ sheets[j.id].lines # j.lines)
  OBVIOUS
<1>1. /\ j.step = "correct" /\ j.id \in DOMAIN sheets
      /\ sheets' = [sheets EXCEPT ![j.id] = corrected(@, j)]
      /\ Settle(r, stale)
      /\ UNCHANGED <<lastSheet, revision>>
  BY DEF Correct, At
<1>2. /\ JobsOK' /\ overtaken' = (overtaken \/ stale)
      /\ \A q \in Requests \ {r} : job'[q] = job[q]
      /\ job'[r] = Idle /\ job'[r].step = "idle"
  <2>1. JobsOK /\ r \in Requests /\ Settle(r, stale) /\ stale \in BOOLEAN
    BY <1>1 DEF SheetsInv
  <2>. QED
    BY ONLY <2>1, Settling
<1>3. SheetsFit(sheets, lastSheet) /\ Priced(j.lines)
  BY <1>1 DEF SheetsInv, SheetJobFits
<1>4. DOMAIN sheets[j.id]
        = {"version", "isActive", "lines", "making", "yield", "costPerUnit"}
      /\ IsSheet(sheets[j.id])
  BY <1>1, <1>3 DEF SheetsFit, IsSheet
<1>5. /\ DOMAIN sheets' = DOMAIN sheets
      /\ sheets' = [id \in DOMAIN sheets' |-> sheets'[id]]
      /\ sheets'[j.id] = corrected(sheets[j.id], j)
      /\ \A id \in DOMAIN sheets \ {j.id} : sheets'[id] = sheets[id]
  BY <1>1, <1>3 DEF SheetsFit
<1>6. /\ DOMAIN sheets'[j.id] = DOMAIN sheets[j.id]
      /\ sheets'[j.id].version = sheets[j.id].version
      /\ sheets'[j.id].isActive = sheets[j.id].isActive
      /\ sheets'[j.id].lines = IF j.replacing THEN j.lines
                               ELSE sheets[j.id].lines
      /\ sheets'[j.id].making = j.making /\ sheets'[j.id].yield = j.yield
      /\ sheets'[j.id].costPerUnit = sheetTotals(j.lines, j.making, j.yield)
  BY <1>4, <1>5 DEF corrected
<1>7. /\ \A id \in DOMAIN sheets :
           /\ sheets'[id].version = sheets[id].version
           /\ sheets'[id].isActive = sheets[id].isActive
  BY <1>5, <1>6
<1>8. IsSheet(sheets'[j.id])
  BY <1>3, <1>4, <1>6 DEF IsSheet
<1>9. SheetsFit(sheets', lastSheet')
  <2>1. \A id \in DOMAIN sheets' : IsSheet(sheets'[id])
    BY <1>3, <1>5, <1>8 DEF SheetsFit
  <2>2. \A id, other \in DOMAIN sheets' :
          sheets'[id].version = sheets'[other].version => id = other
    BY <1>3, <1>5, <1>7 DEF SheetsFit
  <2>. QED
    BY <1>1, <1>3, <1>5, <2>1, <2>2 DEF SheetsFit
<1>10. ASSUME ~overtaken' PROVE SheetsCosted(sheets') /\ NewestActive(sheets')
  <2>1. /\ ~stale /\ SheetsCosted(sheets) /\ NewestActive(sheets)
    BY <1>2, <1>10 DEF SheetsInv
  <2>2. sheets'[j.id].lines = j.lines
    BY <1>6, <2>1
  <2>3. SheetsCosted(sheets')
    BY <1>5, <1>6, <2>1, <2>2 DEF SheetsCosted
  <2>4. NewestActive(sheets')
    BY <1>5, <1>7, <2>1, SameFlags
  <2>. QED
    BY <2>3, <2>4
<1>11. ASSUME NEW q \in Requests
       PROVE  /\ SheetJobFits(job'[q], revision')
              /\ SheetJobFresh(job'[q], sheets', revision')
  <2>1. CASE q = r
    BY <1>2, <2>1, IdleSheetJob
  <2>2. CASE q # r
    <3>1. /\ SheetJobFits(job[q], revision)
          /\ SheetJobFresh(job[q], sheets, revision)
      BY DEF SheetsInv
    <3>2. SheetJobFresh(job[q], sheets', revision)
      BY <1>5, <1>7, <3>1, SameFlags
    <3>. QED
      BY <1>1, <1>2, <2>2, <3>1, <3>2
  <2>. QED
    BY <2>1, <2>2
<1>. QED
  BY <1>1, <1>2, <1>9, <1>10, <1>11 DEF SheetsInv

\* A removal knows whether its sheet was the active one.
LEMMA AskRemoveSheetStep ==
  ASSUME SheetsInv, NEW r \in Requests, AskRemoveSheet(r)
  PROVE  SheetsInv'
<1>1. PICK id \in DOMAIN sheets :
        /\ Begin(r, [step |-> "delete", id |-> id, was |-> revision,
                     isActive |-> sheets[id].isActive])
        /\ UNCHANGED sheetVars
  BY DEF AskRemoveSheet
<1>. DEFINE what == [step |-> "delete", id |-> id, was |-> revision,
                     isActive |-> sheets[id].isActive]
<1>2. /\ DOMAIN what = {"step", "id", "was", "isActive"}
      /\ what["step"] = "delete" /\ what["id"] = id
      /\ what["was"] = revision /\ what["isActive"] = sheets[id].isActive
  OBVIOUS
<1>3. JobsOK /\ r \in Requests /\ Begin(r, what) /\ "step" \in DOMAIN what
  BY <1>1 DEF SheetsInv
<1>. HIDE DEF what
<1>4. /\ JobsOK' /\ overtaken' = overtaken
      /\ job[r].step = "idle"
      /\ \A q \in Requests \ {r} : job'[q] = job[q]
      /\ DOMAIN what \subseteq DOMAIN job'[r]
      /\ \A f \in DOMAIN what : job'[r][f] = what[f]
  BY ONLY <1>3, Beginning
<1>5. /\ job'[r].step = "delete" /\ job'[r].id = id /\ job'[r].was = revision
      /\ job'[r].isActive = sheets[id].isActive
      /\ {"id", "was", "isActive"} \subseteq DOMAIN job'[r]
      /\ job'[r].step \in Removing /\ job'[r].step \notin Creating
  BY <1>2, <1>4 DEF Creating, Removing
<1>6. SheetJobFits(job'[r], revision)
  BY <1>5 DEF SheetJobFits, SheetsInv
<1>7. SheetJobFresh(job'[r], sheets, revision)
  BY <1>5 DEF SheetJobFresh
<1>. QED
  BY <1>1, <1>4, <1>6, <1>7, ReadingStep DEF sheetVars

\* What is left after a removal fits as before.
Left(rows, ids) == [id \in DOMAIN rows \ ids |-> rows[id]]

LEMMA LeftFit ==
  ASSUME NEW rows, NEW last, SheetsFit(rows, last), NEW ids
  PROVE  /\ DOMAIN Left(rows, ids) = DOMAIN rows \ ids
         /\ \A id \in DOMAIN rows \ ids : Left(rows, ids)[id] = rows[id]
         /\ SheetsFit(Left(rows, ids), last)
         /\ SheetsCosted(rows) => SheetsCosted(Left(rows, ids))
<1>. DEFINE new == Left(rows, ids)
<1>1. /\ DOMAIN new = DOMAIN rows \ ids
      /\ \A id \in DOMAIN rows \ ids : new[id] = rows[id]
      /\ new = [id \in DOMAIN new |-> new[id]]
  BY DEF Left
<1>. HIDE DEF new
<1>2. SheetsFit(new, last)
  BY <1>1 DEF SheetsFit
<1>3. SheetsCosted(rows) => SheetsCosted(new)
  BY <1>1 DEF SheetsCosted
<1>. QED
  BY <1>1, <1>2, <1>3 DEF new

\* A removal that goes on carries what it read.
LEMMA RemovalGoesOn ==
  ASSUME SheetsInv, NEW r \in Requests, job[r].step \in Removing,
         NEW what, "step" \in DOMAIN what,
         DOMAIN what \cap {"id", "was", "isActive"} = {},
         what["step"] \in Removing, Continue(r, what)
  PROVE  /\ JobsOK' /\ overtaken' = overtaken
         /\ \A q \in Requests \ {r} : job'[q] = job[q]
         /\ \A f \in DOMAIN what : job'[r][f] = what[f]
         /\ job'[r].id = job[r].id /\ job'[r].was = job[r].was
         /\ job'[r].isActive = job[r].isActive
         /\ SheetJobFits(job'[r], revision)
<1>1. JobsOK /\ r \in Requests /\ Proceed(r, what, FALSE)
  BY DEF SheetsInv, Continue
<1>2. /\ JobsOK' /\ overtaken' = (overtaken \/ FALSE)
      /\ \A q \in Requests \ {r} : job'[q] = job[q]
      /\ DOMAIN job'[r] = DOMAIN what \cup DOMAIN job[r]
      /\ \A f \in DOMAIN what : job'[r][f] = what[f]
      /\ \A f \in DOMAIN job[r] \ DOMAIN what : job'[r][f] = job[r][f]
  BY ONLY <1>1, Proceeding
<1>3. /\ {"id", "was", "isActive"} \subseteq DOMAIN job[r]
      /\ job[r].was \in Nat /\ job[r].was <= revision
  BY DEF SheetsInv, SheetJobFits
<1>4. /\ {"id", "was", "isActive"} \subseteq DOMAIN job'[r]
      /\ job'[r].id = job[r].id /\ job'[r].was = job[r].was
      /\ job'[r].isActive = job[r].isActive
      /\ job'[r].step \in Removing
  BY <1>2, <1>3
<1>5. job'[r].step \notin Creating /\ job'[r].step # "correct"
  BY <1>4 DEF Creating, Removing
<1>6. SheetJobFits(job'[r], revision)
  BY <1>3, <1>4, <1>5 DEF SheetJobFits
<1>7. overtaken' = overtaken
  BY <1>2 DEF SheetsInv, JobsOK
<1>. QED
  BY <1>2, <1>4, <1>6, <1>7

\* A version that was not active leaves the active one the newest.
LEMMA DeleteSheetStep ==
  ASSUME SheetsInv, NEW r \in Requests, DeleteSheet(r)
  PROVE  SheetsInv'
<1>. DEFINE j == job[r]
<1>1. /\ j.step = "delete" /\ j.id \in DOMAIN sheets
      /\ UNCHANGED lastSheet
  BY DEF DeleteSheet, At
<1>2. /\ SheetJobFits(j, revision) /\ SheetJobFresh(j, sheets, revision)
      /\ lastSheet \in Nat /\ SheetsFit(sheets, lastSheet)
      /\ j.step \in Removing /\ j.step \notin Creating
  BY <1>1 DEF SheetsInv, Creating, Removing
<1>3. CASE j.isActive
  <2>. DEFINE what == [step |-> "fallback", held |-> {j.id}]
  <2>1. /\ DOMAIN what = {"step", "held"} /\ what["step"] = "fallback"
    OBVIOUS
  <2>2. Continue(r, what) /\ UNCHANGED <<sheets, lastSheet, revision>>
    BY <1>1, <1>3 DEF DeleteSheet
  <2>. HIDE DEF what
  <2>3. /\ "step" \in DOMAIN what
        /\ DOMAIN what \cap {"id", "was", "isActive"} = {}
        /\ what["step"] \in Removing
    BY <2>1 DEF Removing
  <2>4. /\ JobsOK' /\ overtaken' = overtaken
        /\ \A q \in Requests \ {r} : job'[q] = job[q]
        /\ \A f \in DOMAIN what : job'[r][f] = what[f]
        /\ job'[r].id = j.id /\ job'[r].was = j.was
        /\ job'[r].isActive = j.isActive
        /\ SheetJobFits(job'[r], revision)
    BY <1>2, <2>2, <2>3, RemovalGoesOn
  <2>5. job'[r].step = "fallback"
    BY <2>1, <2>4
  <2>6. SheetJobFresh(job'[r], sheets, revision)
    BY <1>2, <1>3, <2>4, <2>5 DEF SheetJobFresh, Creating, Removing
  <2>. QED
    BY <2>2, <2>4, <2>6, ReadingStep
<1>4. CASE ~j.isActive
  <2>1. sheets' = Left(sheets, {j.id}) /\ Commit(r)
    BY <1>4 DEF DeleteSheet, Dropped, Left
  <2>2. /\ DOMAIN sheets' = DOMAIN sheets \ {j.id}
        /\ \A id \in DOMAIN sheets \ {j.id} : sheets'[id] = sheets[id]
        /\ SheetsFit(sheets', lastSheet)
        /\ SheetsCosted(sheets) => SheetsCosted(sheets')
    BY <1>2, <2>1, LeftFit
  <2>3. ASSUME revision = j.was, NewestActive(sheets)
        PROVE  NewestActive(sheets')
    <3>1. ~sheets[j.id].isActive
      BY <1>2, <1>4, <2>3 DEF SheetJobFresh
    <3>2. PICK id : IsNewest(sheets, DOMAIN sheets, id) /\ ActiveOf(sheets) = {id}
      BY <1>1, <2>3 DEF NewestActive
    <3>3. id # j.id /\ id \in DOMAIN sheets
      BY <3>1, <3>2 DEF ActiveOf
    <3>4. IsNewest(sheets', DOMAIN sheets', id)
      BY <2>2, <3>2, <3>3 DEF IsNewest
    <3>5. ActiveOf(sheets') = {id}
      BY <2>2, <3>1, <3>2, <3>3 DEF ActiveOf
    <3>. QED
      BY <3>4, <3>5 DEF NewestActive
  <2>. QED
    BY <1>1, <1>2, <2>1, <2>2, <2>3, CommitStep
<1>. QED
  BY <1>3, <1>4

\* Of what is left the newest is looked for; with nothing left all is said.
LEMMA FindFallbackStep ==
  ASSUME SheetsInv, NEW r \in Requests, FindFallback(r)
  PROVE  SheetsInv'
<1>. DEFINE j == job[r]
            left == DOMAIN sheets \ {j.id}
<1>1. j.step = "fallback" /\ UNCHANGED lastSheet
  BY DEF FindFallback, At
<1>2. /\ SheetJobFits(j, revision) /\ SheetJobFresh(j, sheets, revision)
      /\ lastSheet \in Nat /\ SheetsFit(sheets, lastSheet)
      /\ j.step \in Removing /\ j.step \notin Creating
  BY <1>1 DEF SheetsInv, Creating, Removing
<1>3. CASE left = {}
  <2>1. sheets' = <<>> /\ Commit(r)
    BY <1>3 DEF FindFallback
  <2>2. DOMAIN sheets' = {} /\ sheets' = [id \in DOMAIN sheets' |-> sheets'[id]]
    BY <2>1
  <2>3. SheetsFit(sheets', lastSheet') /\ SheetsCosted(sheets')
    BY <2>2 DEF SheetsFit, SheetsCosted
  <2>4. NewestActive(sheets')
    BY <2>2 DEF NewestActive
  <2>. QED
    BY <1>1, <1>2, <2>1, <2>3, <2>4, CommitStep
<1>4. CASE left # {}
  <2>. DEFINE what == [step |-> "reactivate", fallback |-> Newest(left)]
  <2>1. /\ DOMAIN what = {"step", "fallback"} /\ what["step"] = "reactivate"
        /\ what["fallback"] = Newest(left)
    OBVIOUS
  <2>2. Continue(r, what) /\ UNCHANGED <<sheets, lastSheet, revision>>
    BY <1>1, <1>4 DEF FindFallback
  <2>. HIDE DEF what
  <2>3. /\ "step" \in DOMAIN what
        /\ DOMAIN what \cap {"id", "was", "isActive"} = {}
        /\ what["step"] \in Removing
    BY <2>1 DEF Removing
  <2>4. /\ JobsOK' /\ overtaken' = overtaken
        /\ \A q \in Requests \ {r} : job'[q] = job[q]
        /\ \A f \in DOMAIN what : job'[r][f] = what[f]
        /\ job'[r].id = j.id /\ job'[r].was = j.was
        /\ job'[r].isActive = j.isActive
        /\ SheetJobFits(job'[r], revision)
    BY <1>2, <2>2, <2>3, RemovalGoesOn
  <2>5. job'[r].step = "reactivate" /\ job'[r].fallback = Newest(left)
    BY <2>1, <2>4
  <2>6. IsNewest(sheets, left, Newest(left))
    BY <1>2, <1>4, NewestFound
  <2>7. SheetJobFresh(job'[r], sheets, revision)
    <3>1. job'[r].step \notin Creating
          /\ job'[r].step \notin {"deactivate", "insert"}
      BY <2>5 DEF Creating
    <3>2. j.was = revision =>
            /\ j.id \in DOMAIN sheets /\ j.isActive = sheets[j.id].isActive
            /\ j.isActive
      BY <1>1, <1>2 DEF SheetJobFresh
    <3>. HIDE DEF left
    <3>3. IsNewest(sheets, DOMAIN sheets \ {job'[r].id}, job'[r].fallback)
      BY <2>4, <2>5, <2>6 DEF left
    <3>. QED
      BY <2>4, <3>1, <3>2, <3>3 DEF SheetJobFresh
  <2>. QED
    BY <2>2, <2>4, <2>7, ReadingStep
<1>. QED
  BY <1>3, <1>4

\* The fallback is the newest left and, as the deleted one was active, the only
\* active one.
LEMMA ReactivateStep ==
  ASSUME SheetsInv, NEW r \in Requests, Reactivate(r)
  PROVE  SheetsInv'
<1>. DEFINE j == job[r]
            rest == Left(sheets, {j.id})
<1>1. /\ j.step = "reactivate" /\ UNCHANGED lastSheet /\ Commit(r)
      /\ sheets' = Activated({j.fallback}, TRUE, rest)
  BY DEF Reactivate, At, Dropped, Left
<1>2. /\ SheetJobFits(j, revision) /\ SheetJobFresh(j, sheets, revision)
      /\ lastSheet \in Nat /\ SheetsFit(sheets, lastSheet)
      /\ j.step \in Removing /\ j.step \notin Creating
  BY <1>1 DEF SheetsInv, Creating, Removing
<1>3. /\ DOMAIN rest = DOMAIN sheets \ {j.id}
      /\ \A id \in DOMAIN sheets \ {j.id} : rest[id] = sheets[id]
      /\ SheetsFit(rest, lastSheet)
      /\ SheetsCosted(sheets) => SheetsCosted(rest)
  BY <1>2, LeftFit
<1>. HIDE DEF rest
<1>4. /\ DOMAIN sheets' = DOMAIN rest
      /\ sheets' = [id \in DOMAIN sheets' |-> sheets'[id]]
      /\ \A id \in DOMAIN rest : sheets'[id] =
           IF id = j.fallback THEN [rest[id] EXCEPT !.isActive = TRUE]
           ELSE rest[id]
  BY <1>1 DEF Activated
<1>sheet. \A id \in DOMAIN rest :
            /\ DOMAIN rest[id] = {"version", "isActive", "lines", "making",
                                   "yield", "costPerUnit"}
            /\ rest[id].isActive \in BOOLEAN /\ rest[id].version \in Nat
            /\ Priced(rest[id].lines)
  BY <1>3 DEF SheetsFit, IsSheet
<1>5. \A id \in DOMAIN rest :
        /\ sheets'[id].version = rest[id].version
        /\ sheets'[id].isActive = (rest[id].isActive \/ id = j.fallback)
        /\ sheets'[id].lines = rest[id].lines
        /\ sheets'[id].making = rest[id].making
        /\ sheets'[id].yield = rest[id].yield
        /\ sheets'[id].costPerUnit = rest[id].costPerUnit
        /\ DOMAIN sheets'[id] = DOMAIN rest[id]
  BY <1>4, <1>sheet
<1>6. \A id \in DOMAIN sheets' : IsSheet(sheets'[id])
  BY <1>4, <1>5, <1>sheet DEF IsSheet
<1>7. SheetsFit(sheets', lastSheet')
  <2>1. \A id, other \in DOMAIN sheets' :
          sheets'[id].version = sheets'[other].version => id = other
    BY <1>3, <1>4, <1>5 DEF SheetsFit
  <2>. QED
    BY <1>1, <1>3, <1>4, <1>6, <2>1 DEF SheetsFit
<1>8. SheetsCosted(sheets) => SheetsCosted(sheets')
  BY <1>3, <1>4, <1>5 DEF SheetsCosted
<1>9. ASSUME revision = j.was, NewestActive(sheets)
      PROVE  NewestActive(sheets')
  <2>1. /\ j.id \in DOMAIN sheets /\ j.isActive /\ sheets[j.id].isActive
        /\ IsNewest(sheets, DOMAIN rest, j.fallback)
    BY <1>1, <1>2, <1>3, <1>9 DEF SheetJobFresh
  <2>2. PICK id : ActiveOf(sheets) = {id}
    BY <1>9, <2>1 DEF NewestActive
  <2>3. \A i \in DOMAIN rest : ~rest[i].isActive
    BY <1>3, <2>1, <2>2 DEF ActiveOf
  <2>4. j.fallback \in DOMAIN rest
    BY <2>1 DEF IsNewest
  <2>5. ActiveOf(sheets') = {j.fallback}
    BY <1>4, <1>5, <2>3, <2>4 DEF ActiveOf
  <2>6. IsNewest(sheets', DOMAIN sheets', j.fallback)
    BY <1>3, <1>4, <1>5, <2>1 DEF IsNewest
  <2>. QED
    BY <2>5, <2>6 DEF NewestActive
<1>. QED
  BY <1>1, <1>2, <1>7, <1>8, <1>9, CommitStep

\* A request that stops leaves the sheets as they are.
LEMMA AbandonSheetStep ==
  ASSUME SheetsInv, NEW r \in Requests, AbandonSheet(r)
  PROVE  SheetsInv'
<1>1. JobsOK /\ r \in Requests /\ Settle(r, FALSE) /\ FALSE \in BOOLEAN
  BY DEF AbandonSheet, Interrupt, End, SheetsInv
<1>2. /\ JobsOK' /\ overtaken' = (overtaken \/ FALSE)
      /\ \A q \in Requests \ {r} : job'[q] = job[q]
      /\ job'[r] = Idle /\ job'[r].step = "idle"
  BY ONLY <1>1, Settling
<1>3. /\ SheetJobFits(job'[r], revision)
      /\ SheetJobFresh(job'[r], sheets, revision)
  BY <1>2, IdleSheetJob
<1>4. overtaken' = overtaken /\ UNCHANGED <<sheets, lastSheet, revision>>
  BY <1>2 DEF SheetsInv, JobsOK, AbandonSheet, sheetVars
<1>. QED
  BY <1>2, <1>3, <1>4, ReadingStep

\* Every step of the cost sheets preserves the invariant.
LEMMA SheetsNextInv ==
  SheetsInv /\ [SheetsNext]_<<sheetVars, inFlight>> => SheetsInv'
<1>. SUFFICES ASSUME SheetsInv, [SheetsNext]_<<sheetVars, inFlight>>
              PROVE  SheetsInv'
  OBVIOUS
<1>1. CASE Purchased \/ UNCHANGED <<sheetVars, inFlight>>
  <2>1. UNCHANGED <<sheets, lastSheet, revision, job, overtaken>>
    BY <1>1 DEF Purchased, sheetVars, inFlight
  <2>. QED
    BY <2>1 DEF SheetsInv, JobsOK
<1>. QED
  BY <1>1, AskSheetStep, PickActiveStep, DeactivateStep, InsertSheetStep,
     AskCorrectionStep, CorrectStep, AskRemoveSheetStep, DeleteSheetStep,
     FindFallbackStep, ReactivateStep, AbandonSheetStep DEF SheetsNext

\* The margin of a product is that of its newest sheet, the only one active,
\* through any creates, corrections and removes, until one of them met another's
\* change.
THEOREM MarginsAreTheNewest == SheetsSpec => []MarginIsTheNewest
<1>1. ASSUME SheetsInv PROVE MarginIsTheNewest
  <2>. DEFINE newest == Newest(DOMAIN sheets)
              s == sheets[newest]
              costs == [i \in DOMAIN s.lines |->
                          halfUp(s.lines[i].quantity * s.lines[i].rate, 100)]
              cost == halfUp(100 * (SumFunction(costs) + s.making), s.yield)
  <2>. SUFFICES ASSUME ~overtaken, DOMAIN sheets # {}
                PROVE  /\ Active = {newest}
                       /\ margins = [costed |-> TRUE, version |-> s.version,
                                     marginAmount |-> Price - cost]
    BY DEF MarginIsTheNewest
  <2>1. PICK id : IsNewest(sheets, DOMAIN sheets, id) /\ ActiveOf(sheets) = {id}
    BY <1>1 DEF SheetsInv, NewestActive
  <2>2. id = newest /\ newest \in DOMAIN sheets
    BY <1>1, <2>1, NewestFound DEF SheetsInv, IsNewest
  <2>3. Active = {newest}
    BY <2>1, <2>2 DEF Active, ActiveOf
  <2>4. (CHOOSE x \in Active : TRUE) = newest
    BY <2>3
  <2>5. Priced(s.lines) /\ s.costPerUnit = sheetTotals(s.lines, s.making, s.yield)
    BY <1>1, <2>2 DEF SheetsInv, SheetsFit, IsSheet, SheetsCosted
  <2>6. [i \in DOMAIN s.lines |-> s.lines[i].lineCost] = costs
    BY <2>5 DEF Priced, lineCost
  <2>7. s.costPerUnit = cost
    BY <2>5, <2>6 DEF sheetTotals, materialCost
  <2>8. Active # {}
    BY <2>3
  <2>9. margins = [costed |-> TRUE, version |-> s.version,
                   marginAmount |-> Price - s.costPerUnit]
    BY <2>4, <2>8 DEF margins, computeMargin
  <2>. QED
    BY <2>3, <2>7, <2>9
<1>. QED
  BY <1>1, SheetsInitInv, SheetsNextInv, PTL DEF SheetsSpec

(***************************************************************************)
(* Reports.                                                                *)
(***************************************************************************)

Sale == [items : Lines, placed : Int,
         status : {"PENDING", "DELIVERED", "RETURNED"}]
GivenBack == [order : Nat, amount : Amounts, recorded : Int, completed : BOOLEAN]
Expense == [spentOn : Int, amount : Amounts]

TotalOf(items) ==
  SumFunction([i \in DOMAIN items |-> items[i].quantity * items[i].unitPrice])

CostedOf(items) == {i \in DOMAIN items : items[i].unitCost # NoCost}

CostOf(items) ==
  SumFunction([i \in CostedOf(items) |-> items[i].quantity * items[i].unitCost])

DeliveredIn(rows, period) ==
  {o \in DOMAIN rows : rows[o].status = "DELIVERED" /\ InRange(period, rows[o].placed)}

BackOn(back, fs) == SumFunction([f \in fs |-> back[f].amount])

BackFor(back, o) == {f \in DOMAIN back : back[f].order = o}
SentFor(back, o) == {f \in Completed(back) : back[f].order = o}

KeptOf(rows, back, o) == TotalOf(rows[o].items) - BackOn(back, SentFor(back, o))

SpentOn(spent, es) == SumFunction([e \in es |-> spent[e].amount])

\* Rows of their kinds, refunds of orders there are and within their totals.
ReportRowsFit(rows, back, spent) ==
  /\ rows \in Seq(Sale) /\ back \in Seq(GivenBack)
  /\ DOMAIN spent \subseteq 1 .. MaxExpenses
  /\ \A e \in DOMAIN spent : spent[e] \in Expense
  /\ \A f \in DOMAIN back : back[f].order \in DOMAIN rows
  /\ \A o \in DOMAIN rows :
       BackOn(back, BackFor(back, o)) <= TotalOf(rows[o].items)

\* An order's lines are numbered, and come to whole amounts.
LEMMA ItemsFit ==
  ASSUME NEW items \in Lines
  PROVE  /\ IsFiniteSet(DOMAIN items)
         /\ \A i \in DOMAIN items :
              /\ items[i].quantity * items[i].unitPrice \in Int
              /\ items[i].unitCost # NoCost =>
                   items[i].quantity * items[i].unitCost \in Int
         /\ TotalOf(items) \in Int /\ CostOf(items) \in Int
<1>1. items \in Seq(OrderItem)
  BY LinesAssumption
<1>2. DOMAIN items = 1 .. Len(items) /\ Len(items) \in Nat
  BY <1>1
<1>3. IsFiniteSet(DOMAIN items)
  BY <1>2, FS_Interval
<1>4. \A i \in DOMAIN items :
        /\ items[i].quantity \in Nat /\ items[i].unitPrice \in Nat
        /\ items[i].unitCost # NoCost => items[i].unitCost \in Nat
  <2>1. \A i \in DOMAIN items : items[i] \in OrderItem
    BY <1>1
  <2>. QED
    BY <2>1 DEF OrderItem
<1>5. \A m, n \in Nat : m * n \in Int
  OBVIOUS
<1>6. \A i \in DOMAIN items :
        /\ items[i].quantity * items[i].unitPrice \in Int
        /\ items[i].unitCost # NoCost =>
             items[i].quantity * items[i].unitCost \in Int
  BY <1>4, <1>5
<1>7. TotalOf(items) \in Int
  <2>. DEFINE f == [i \in DOMAIN items |-> items[i].quantity * items[i].unitPrice]
  <2>1. DOMAIN f = DOMAIN items /\ \A i \in DOMAIN items : f[i] \in Int
    BY <1>6
  <2>2. TotalOf(items) = SumFunctionOnSet(f, DOMAIN items)
    BY DEF TotalOf, SumFunction
  <2>. HIDE DEF f
  <2>. QED
    BY <1>3, <2>1, <2>2, SumIsInt
<1>8. CostOf(items) \in Int
  <2>. DEFINE S == CostedOf(items)
              f == [i \in S |-> items[i].quantity * items[i].unitCost]
  <2>1. DOMAIN f = S /\ \A i \in S : f[i] \in Int
    BY <1>6 DEF CostedOf
  <2>2. CostOf(items) = SumFunctionOnSet(f, S)
    BY DEF CostOf, SumFunction
  <2>3. IsFiniteSet(S)
    BY <1>3, FS_Subset DEF CostedOf
  <2>. HIDE DEF f, S
  <2>. QED
    BY <2>1, <2>2, <2>3, SumIsInt
<1>. QED
  BY <1>3, <1>6, <1>7, <1>8

\* There are finitely many rows, with whole amounts.
LEMMA RowsAreFinite ==
  ASSUME NEW rows, NEW back, NEW spent, ReportRowsFit(rows, back, spent)
  PROVE  /\ IsFiniteSet(DOMAIN rows) /\ IsFiniteSet(DOMAIN back)
         /\ IsFiniteSet(DOMAIN spent)
         /\ \A o \in DOMAIN rows : /\ rows[o].items \in Lines
                                   /\ rows[o].placed \in Int
         /\ \A f \in DOMAIN back : /\ back[f].amount \in Nat
                                   /\ back[f].order \in DOMAIN rows
                                   /\ back[f].completed \in BOOLEAN
         /\ \A e \in DOMAIN spent : /\ spent[e].amount \in Nat
                                    /\ spent[e].spentOn \in Int
<1>1. /\ DOMAIN rows = 1 .. Len(rows) /\ Len(rows) \in Nat
      /\ DOMAIN back = 1 .. Len(back) /\ Len(back) \in Nat
  BY DEF ReportRowsFit
<1>2. IsFiniteSet(DOMAIN rows) /\ IsFiniteSet(DOMAIN back)
  BY <1>1, FS_Interval
<1>3. IsFiniteSet(DOMAIN spent)
  <2>1. MaxExpenses \in Int
    BY ExpensesBound
  <2>2. IsFiniteSet(1 .. MaxExpenses)
    BY <2>1, FS_Interval
  <2>3. DOMAIN spent \subseteq 1 .. MaxExpenses
    BY DEF ReportRowsFit
  <2>. QED
    BY <2>2, <2>3, FS_Subset
<1>4. \A o \in DOMAIN rows : rows[o] \in Sale
  BY DEF ReportRowsFit
<1>5. \A f \in DOMAIN back : back[f] \in GivenBack
  BY DEF ReportRowsFit
<1>6. \A o \in DOMAIN rows : rows[o].items \in Lines /\ rows[o].placed \in Int
  BY <1>4 DEF Sale
<1>7. \A f \in DOMAIN back : /\ back[f].amount \in Nat
                             /\ back[f].order \in DOMAIN rows
                             /\ back[f].completed \in BOOLEAN
  BY <1>5, AmountsAssumption DEF GivenBack, ReportRowsFit
<1>8. \A e \in DOMAIN spent : spent[e].amount \in Nat /\ spent[e].spentOn \in Int
  BY AmountsAssumption DEF ReportRowsFit, Expense
<1>. QED
  BY <1>2, <1>3, <1>6, <1>7, <1>8

\* The refunds on some rows are a whole amount, and no more than those on more rows.
LEMMA BackFits ==
  ASSUME NEW back, IsFiniteSet(DOMAIN back),
         \A f \in DOMAIN back : back[f].amount \in Nat,
         NEW S \in SUBSET DOMAIN back, NEW T \in SUBSET S
  PROVE  /\ BackOn(back, S) \in Nat /\ BackOn(back, T) \in Nat
         /\ BackOn(back, S) = BackOn(back, T) + BackOn(back, S \ T)
         /\ BackOn(back, T) <= BackOn(back, S)
<1>. DEFINE f == [x \in DOMAIN back |-> back[x].amount]
<1>1. \A x \in DOMAIN back : f[x] \in Nat
  OBVIOUS
<1>2. ASSUME NEW U \in SUBSET DOMAIN back
      PROVE  /\ IsFiniteSet(U)
             /\ BackOn(back, U) = SumFunctionOnSet(f, U)
             /\ BackOn(back, U) \in Nat
  <2>. DEFINE g == [x \in U |-> back[x].amount]
  <2>1. IsFiniteSet(U)
    BY FS_Subset
  <2>2. BackOn(back, U) = SumFunctionOnSet(g, U)
    BY DEF BackOn, SumFunction
  <2>3. \A x \in U : f[x] \in Int /\ g[x] = f[x] /\ f[x] \in Nat
    BY <1>1
  <2>. HIDE DEF f, g
  <2>4. SumFunctionOnSet(g, U) = SumFunctionOnSet(f, U)
    BY <2>1, <2>3, SumSame
  <2>5. SumFunctionOnSet(f, U) \in Nat
    BY <2>1, <2>3, SumCovers
  <2>. QED
    BY <2>1, <2>2, <2>4, <2>5
<1>. HIDE DEF f
<1>3. /\ IsFiniteSet(T) /\ IsFiniteSet(S \ T) /\ T \cap (S \ T) = {}
      /\ S = T \cup (S \ T) /\ \A x \in T \cup (S \ T) : f[x] \in Int
  BY <1>1, <1>2
<1>4. SumFunctionOnSet(f, T \cup (S \ T))
        = SumFunctionOnSet(f, T) + SumFunctionOnSet(f, S \ T)
  BY <1>3, SumSplit
<1>5. BackOn(back, S) \in Nat /\ BackOn(back, T) \in Nat /\ BackOn(back, S \ T) \in Nat
  BY <1>2
<1>6. BackOn(back, S) = BackOn(back, T) + BackOn(back, S \ T)
  <2>1. /\ BackOn(back, S) = SumFunctionOnSet(f, S)
        /\ BackOn(back, T) = SumFunctionOnSet(f, T)
        /\ BackOn(back, S \ T) = SumFunctionOnSet(f, S \ T)
    BY <1>2
  <2>2. SumFunctionOnSet(f, T \cup (S \ T)) = SumFunctionOnSet(f, S)
    BY <1>3
  <2>. QED
    BY <1>4, <2>1, <2>2
<1>. QED
  BY <1>5, <1>6

SoldIn(rows, os) == SumFunction([o \in os |-> TotalOf(rows[o].items)])
CostIn(rows, os) == SumFunction([o \in os |-> CostOf(rows[o].items)])
KeptIn(rows, back, os) == SumFunction([o \in os |-> KeptOf(rows, back, o)])

SentIn(back, os) == {f \in Completed(back) : back[f].order \in os}

\* What an order kept is a whole amount, and never negative: what was sent back
\* for it is among what was raised for it.
LEMMA KeptFits ==
  ASSUME NEW rows, NEW back, NEW spent, ReportRowsFit(rows, back, spent),
         NEW o \in DOMAIN rows
  PROVE  /\ KeptOf(rows, back, o) \in Nat
         /\ BackOn(back, SentFor(back, o)) \in Nat
         /\ TotalOf(rows[o].items)
              = KeptOf(rows, back, o) + BackOn(back, SentFor(back, o))
<1>1. /\ IsFiniteSet(DOMAIN back) /\ \A f \in DOMAIN back : back[f].amount \in Nat
      /\ rows[o].items \in Lines
  BY RowsAreFinite
<1>2. /\ BackFor(back, o) \in SUBSET DOMAIN back
      /\ SentFor(back, o) \in SUBSET BackFor(back, o)
  BY DEF BackFor, SentFor, Completed
<1>3. /\ BackOn(back, BackFor(back, o)) \in Nat
      /\ BackOn(back, SentFor(back, o)) \in Nat
      /\ BackOn(back, SentFor(back, o)) <= BackOn(back, BackFor(back, o))
  BY <1>1, <1>2, BackFits
<1>4. BackOn(back, BackFor(back, o)) <= TotalOf(rows[o].items)
  BY DEF ReportRowsFit
<1>5. TotalOf(rows[o].items) \in Int
  BY <1>1, ItemsFit
<1>. QED
  BY <1>3, <1>4, <1>5 DEF KeptOf

\* Net revenue, counted refund by refund, is what the orders kept one by one.
LEMMA NetIsKept ==
  ASSUME NEW rows, NEW back, NEW spent, ReportRowsFit(rows, back, spent),
         NEW os \in SUBSET DOMAIN rows
  PROVE  /\ SoldIn(rows, os) - BackOn(back, SentIn(back, os)) = KeptIn(rows, back, os)
         /\ KeptIn(rows, back, os) \in Nat
<1>. DEFINE fs == SentIn(back, os)
            amount == [f \in fs |-> back[f].amount]
            key == [f \in fs |-> back[f].order]
            part == [o \in os |-> SentFor(back, o)]
            on == [o \in os |-> [f \in SentFor(back, o) |-> back[f].amount]]
            sent == [o \in os |-> BackOn(back, SentFor(back, o))]
            sold == [o \in os |-> TotalOf(rows[o].items)]
            kept == [o \in os |-> KeptOf(rows, back, o)]
<1>1. /\ IsFiniteSet(DOMAIN rows) /\ IsFiniteSet(DOMAIN back)
      /\ \A f \in DOMAIN back : back[f].amount \in Nat
  BY RowsAreFinite
<1>2. IsFiniteSet(os) /\ IsFiniteSet(fs)
  BY <1>1, FS_Subset DEF SentIn, Completed
<1>3. /\ \A f \in fs : key[f] \in os /\ amount[f] \in Int
      /\ \A o \in os : part[o] \subseteq fs
      /\ \A o \in os : \A f \in fs : f \in part[o] <=> key[f] = o
      /\ \A o \in os : \A f \in part[o] : on[o][f] = amount[f]
  BY <1>1 DEF SentIn, SentFor, Completed
<1>4. \A o \in os : sent[o] = SumFunctionOnSet(on[o], part[o])
  BY DEF BackOn, SumFunction
<1>5. \A o \in os : /\ kept[o] \in Nat /\ sent[o] \in Int
                    /\ sold[o] = kept[o] + sent[o]
  BY KeptFits
<1>6. /\ SoldIn(rows, os) = SumFunctionOnSet(sold, os)
      /\ KeptIn(rows, back, os) = SumFunctionOnSet(kept, os)
      /\ BackOn(back, SentIn(back, os)) = SumFunctionOnSet(amount, fs)
  BY DEF SoldIn, KeptIn, BackOn, SumFunction
<1>. HIDE DEF fs, amount, key, part, on, sent, sold, kept
<1>7. SumFunctionOnSet(amount, fs) = SumFunctionOnSet(sent, os)
  BY ONLY <1>2, <1>3, <1>4, SumByKey, SMTT(60)
<1>8. /\ \A o \in os : kept[o] \in Int /\ sent[o] \in Int
      /\ \A o \in os : sold[o] = kept[o] + sent[o]
  BY <1>5
<1>9. SumFunctionOnSet(sold, os)
        = SumFunctionOnSet(kept, os) + SumFunctionOnSet(sent, os)
  BY <1>2, <1>8, SumPlus
<1>10. SumFunctionOnSet(kept, os) \in Nat
  BY <1>2, <1>5, SumCovers
<1>11. SumFunctionOnSet(sent, os) \in Int
  BY <1>2, <1>8, SumIsInt
<1>. QED
  BY <1>6, <1>7, <1>9, <1>10, <1>11

LinesOf(rows, os) == UNION {{<<o, i>> : i \in DOMAIN rows[o].items} : o \in os}

LineCost(rows, x) == rows[x[1]].items[x[2]].quantity * rows[x[1]].items[x[2]].unitCost

\* Costs order by order are the costs line by line, where every line has one.
LEMMA CostsAreLines ==
  ASSUME NEW rows, NEW back, NEW spent, ReportRowsFit(rows, back, spent),
         NEW os \in SUBSET DOMAIN rows,
         \A o \in os : CostedOf(rows[o].items) = DOMAIN rows[o].items
  PROVE  CostIn(rows, os)
           = SumFunction([x \in LinesOf(rows, os) |-> LineCost(rows, x)])
<1>. DEFINE All == LinesOf(rows, os)
            F == [o \in os |-> {<<o, i>> : i \in DOMAIN rows[o].items}]
            f == [x \in All |-> LineCost(rows, x)]
            g == [o \in os |-> CostOf(rows[o].items)]
<1>1. IsFiniteSet(DOMAIN rows) /\ \A o \in DOMAIN rows : rows[o].items \in Lines
  BY RowsAreFinite
<1>2. IsFiniteSet(os)
  BY <1>1, FS_Subset
<1>3. ASSUME NEW o \in os
      PROVE  /\ IsFiniteSet(F[o])
             /\ \A x \in F[o] : f[x] \in Int
             /\ g[o] = SumFunctionOnSet(f, F[o])
  <2>. DEFINE D == DOMAIN rows[o].items
              e == [i \in D |-> <<o, i>>]
              h == [i \in D |-> rows[o].items[i].quantity * rows[o].items[i].unitCost]
  <2>1. /\ IsFiniteSet(D)
        /\ \A i \in D : h[i] \in Int
    <3>1. \A i \in D : rows[o].items[i].unitCost # NoCost
      BY DEF CostedOf
    <3>. QED
      BY <1>1, <3>1, ItemsFit
  <2>2. g[o] = SumFunctionOnSet(h, D)
    BY DEF CostOf, SumFunction
  <2>3. F[o] = {e[i] : i \in D}
    OBVIOUS
  <2>4. \A i \in D : e[i] \in All /\ f[e[i]] = h[i]
    BY DEF LinesOf, LineCost
  <2>5. \A i, k \in D : e[i] = e[k] => i = k
    OBVIOUS
  <2>. HIDE DEF D, e, h, f, g, F, All
  <2>6. /\ IsFiniteSet(D) /\ \A i, k \in D : e[i] = e[k] => i = k
        /\ \A i \in D : f[e[i]] \in Int /\ h[i] = f[e[i]]
    BY <2>1, <2>4, <2>5
  <2>7. SumFunctionOnSet(f, {e[i] : i \in D}) = SumFunctionOnSet(h, D)
    BY ONLY <2>6, SumImage
  <2>8. IsFiniteSet({e[i] : i \in D})
    BY <2>1, ImageIsFinite
  <2>. QED
    BY <2>2, <2>3, <2>6, <2>7, <2>8
<1>4. /\ \A o, k \in os : o # k => F[o] \cap F[k] = {}
      /\ \A x : x \in All <=> \E o \in os : x \in F[o]
  BY DEF LinesOf
<1>5. /\ CostIn(rows, os) = SumFunctionOnSet(g, os)
      /\ SumFunction([x \in LinesOf(rows, os) |-> LineCost(rows, x)])
           = SumFunctionOnSet(f, All)
  BY DEF CostIn, SumFunction
<1>. HIDE DEF All, F, f, g
<1>6. /\ IsFiniteSet(os) /\ \A o \in os : IsFiniteSet(F[o])
      /\ \A o, k \in os : o # k => F[o] \cap F[k] = {}
      /\ \A o \in os : \A x \in F[o] : f[x] \in Int
      /\ \A o \in os : g[o] = SumFunctionOnSet(f, F[o])
      /\ \A x : x \in All <=> \E o \in os : x \in F[o]
  BY <1>2, <1>3, <1>4
<1>7. SumFunctionOnSet(f, All) = SumFunctionOnSet(g, os)
  BY ONLY <1>6, SumUnion, SMTT(60)
<1>. QED
  BY <1>5, <1>7

EntriesIn(spent, period) == {e \in DOMAIN spent : InRange(period, spent[e].spentOn)}

KeptOn(rows, back, os, day) == KeptIn(rows, back, {o \in os : rows[o].placed = day})

SpentThatDay(spent, day) == SpentOn(spent, {e \in DOMAIN spent : spent[e].spentOn = day})

\* Expenses come to a whole amount.
LEMMA SpentFits ==
  ASSUME NEW rows, NEW back, NEW spent, ReportRowsFit(rows, back, spent),
         NEW es \in SUBSET DOMAIN spent
  PROVE  IsFiniteSet(es) /\ SpentOn(spent, es) \in Nat
<1>. DEFINE f == [e \in es |-> spent[e].amount]
<1>1. IsFiniteSet(es)
  BY RowsAreFinite, FS_Subset
<1>2. \A e \in es : f[e] \in Nat
  BY RowsAreFinite
<1>3. SpentOn(spent, es) = SumFunctionOnSet(f, es)
  BY DEF SpentOn, SumFunction
<1>. HIDE DEF f
<1>. QED
  BY <1>1, <1>2, <1>3, SumCovers

\* What was kept in a period was kept on its days.
LEMMA KeptDayByDay ==
  ASSUME NEW rows, NEW back, NEW spent, ReportRowsFit(rows, back, spent),
         NEW K, IsFiniteSet(K), NEW os \in SUBSET DOMAIN rows,
         \A o \in os : rows[o].placed \in K
  PROVE  KeptIn(rows, back, os)
           = SumFunctionOnSet([day \in K |-> KeptOn(rows, back, os, day)], K)
<1>. DEFINE f == [o \in os |-> KeptOf(rows, back, o)]
            key == [o \in os |-> rows[o].placed]
            P == [day \in K |-> {o \in os : rows[o].placed = day}]
            h == [day \in K |->
                    [o \in {x \in os : rows[x].placed = day} |-> KeptOf(rows, back, o)]]
            g == [day \in K |-> KeptOn(rows, back, os, day)]
<1>1. IsFiniteSet(os)
  BY RowsAreFinite, FS_Subset
<1>2. \A o \in os : f[o] \in Int
  BY KeptFits
<1>3. \A day \in K : g[day] = SumFunctionOnSet(h[day], P[day])
  BY DEF KeptOn, KeptIn, SumFunction
<1>4. /\ \A o \in os : key[o] \in K
      /\ \A day \in K : P[day] \subseteq os
      /\ \A day \in K : \A o \in os : o \in P[day] <=> key[o] = day
      /\ \A day \in K : \A o \in P[day] : h[day][o] = f[o]
  OBVIOUS
<1>5. KeptIn(rows, back, os) = SumFunctionOnSet(f, os)
  BY DEF KeptIn, SumFunction
<1>. HIDE DEF f, key, P, h, g
<1>6. /\ IsFiniteSet(os) /\ IsFiniteSet(K)
      /\ \A o \in os : key[o] \in K
      /\ \A o \in os : f[o] \in Int
      /\ \A day \in K : P[day] \subseteq os
      /\ \A day \in K : \A o \in os : o \in P[day] <=> key[o] = day
      /\ \A day \in K : \A o \in P[day] : h[day][o] = f[o]
      /\ \A day \in K : g[day] = SumFunctionOnSet(h[day], P[day])
  BY <1>1, <1>2, <1>3, <1>4
<1>7. SumFunctionOnSet(f, os) = SumFunctionOnSet(g, K)
  BY ONLY <1>6, SumByKey, SMTT(60)
<1>. QED
  BY <1>5, <1>7 DEF g

\* And what was spent in it was spent on its days.
LEMMA SpentDayByDay ==
  ASSUME NEW rows, NEW back, NEW spent, ReportRowsFit(rows, back, spent),
         NEW K, IsFiniteSet(K), NEW es \in SUBSET DOMAIN spent,
         \A e \in DOMAIN spent : e \in es <=> spent[e].spentOn \in K
  PROVE  SpentOn(spent, es)
           = SumFunctionOnSet([day \in K |-> SpentThatDay(spent, day)], K)
<1>. DEFINE f == [e \in es |-> spent[e].amount]
            key == [e \in es |-> spent[e].spentOn]
            P == [day \in K |-> {e \in DOMAIN spent : spent[e].spentOn = day}]
            h == [day \in K |->
                    [e \in {x \in DOMAIN spent : spent[x].spentOn = day} |->
                       spent[e].amount]]
            g == [day \in K |-> SpentThatDay(spent, day)]
<1>1. IsFiniteSet(es)
  BY RowsAreFinite, FS_Subset
<1>2. \A e \in es : f[e] \in Int
  BY RowsAreFinite
<1>3. \A day \in K : g[day] = SumFunctionOnSet(h[day], P[day])
  BY DEF SpentThatDay, SpentOn, SumFunction
<1>4. /\ \A e \in es : key[e] \in K
      /\ \A day \in K : P[day] \subseteq es
      /\ \A day \in K : \A e \in es : e \in P[day] <=> key[e] = day
      /\ \A day \in K : \A e \in P[day] : h[day][e] = f[e]
  OBVIOUS
<1>5. SpentOn(spent, es) = SumFunctionOnSet(f, es)
  BY DEF SpentOn, SumFunction
<1>. HIDE DEF f, key, P, h, g
<1>6. /\ IsFiniteSet(es) /\ IsFiniteSet(K)
      /\ \A e \in es : key[e] \in K
      /\ \A e \in es : f[e] \in Int
      /\ \A day \in K : P[day] \subseteq es
      /\ \A day \in K : \A e \in es : e \in P[day] <=> key[e] = day
      /\ \A day \in K : \A e \in P[day] : h[day][e] = f[e]
      /\ \A day \in K : g[day] = SumFunctionOnSet(h[day], P[day])
  BY <1>1, <1>2, <1>3, <1>4
<1>7. SumFunctionOnSet(f, es) = SumFunctionOnSet(g, K)
  BY ONLY <1>6, SumByKey, SMTT(60)
<1>. QED
  BY <1>5, <1>7 DEF g

DayProfit(rows, back, spent, os, day) ==
  KeptOn(rows, back, os, day) - SpentThatDay(spent, day)

\* Days that follow each other add up to the period.
LEMMA DaysAddUp ==
  ASSUME NEW rows, NEW back, NEW spent, ReportRowsFit(rows, back, spent),
         NEW period, period.from \in Int, period.to \in Int
  PROVE  LET os == DeliveredIn(rows, period)
             days == period.from .. period.to
         IN  KeptIn(rows, back, os) - SpentOn(spent, EntriesIn(spent, period))
               = SumFunction([day \in days |-> DayProfit(rows, back, spent, os, day)])
<1>. DEFINE os == DeliveredIn(rows, period)
            K == period.from .. period.to
            es == EntriesIn(spent, period)
            kept == [day \in K |-> KeptOn(rows, back, os, day)]
            gone == [day \in K |-> SpentThatDay(spent, day)]
            profit == [day \in K |-> DayProfit(rows, back, spent, os, day)]
<1>1. IsFiniteSet(K)
  BY FS_Interval
<1>2. /\ os \in SUBSET DOMAIN rows
      /\ \A o \in os : rows[o].placed \in K
  BY RowsAreFinite DEF DeliveredIn, InRange
<1>3. /\ es \in SUBSET DOMAIN spent
      /\ \A e \in DOMAIN spent : e \in es <=> spent[e].spentOn \in K
  BY RowsAreFinite DEF EntriesIn, InRange
<1>4. \A day \in K : kept[day] \in Int
  <2>. SUFFICES ASSUME NEW day \in K PROVE kept[day] \in Int
    OBVIOUS
  <2>1. {o \in os : rows[o].placed = day} \in SUBSET DOMAIN rows
    BY <1>2
  <2>. HIDE DEF os, K
  <2>2. KeptOn(rows, back, os, day) \in Nat
    BY <2>1, NetIsKept DEF KeptOn
  <2>. QED
    BY <2>2
<1>5. \A day \in K : gone[day] \in Int
  <2>. SUFFICES ASSUME NEW day \in K PROVE gone[day] \in Int
    OBVIOUS
  <2>1. {e \in DOMAIN spent : spent[e].spentOn = day} \in SUBSET DOMAIN spent
    OBVIOUS
  <2>. HIDE DEF K
  <2>2. SpentThatDay(spent, day) \in Nat
    BY <2>1, SpentFits DEF SpentThatDay
  <2>. QED
    BY <2>2
<1>6. \A day \in K : profit[day] = kept[day] - gone[day]
  BY DEF DayProfit
<1>7. SumFunction(profit) = SumFunctionOnSet(profit, K)
  BY DEF SumFunction
<1>. HIDE DEF os, K, es
<1>8. KeptIn(rows, back, os) = SumFunctionOnSet(kept, K)
  BY <1>1, <1>2, KeptDayByDay
<1>9. SpentOn(spent, es) = SumFunctionOnSet(gone, K)
  BY <1>1, <1>3, SpentDayByDay
<1>. HIDE DEF kept, gone, profit
<1>10. \A day \in K : /\ profit[day] \in Int /\ gone[day] \in Int
                      /\ kept[day] = profit[day] + gone[day]
  BY <1>4, <1>5, <1>6
<1>11. SumFunctionOnSet(kept, K)
         = SumFunctionOnSet(profit, K) + SumFunctionOnSet(gone, K)
  BY <1>1, <1>10, SumPlus
<1>12. SumFunctionOnSet(profit, K) \in Int /\ SumFunctionOnSet(gone, K) \in Int
  BY <1>1, <1>10, SumIsInt
<1>13. KeptIn(rows, back, os) - SpentOn(spent, es) = SumFunction(profit)
  BY <1>7, <1>8, <1>9, <1>11, <1>12
<1>. QED
  BY <1>13 DEF os, es, profit, K

\* What a report `rep` of these rows should say.
ReportTrue(rep, rows, back, spent) ==
  LET os == DeliveredIn(rows, rep.period)
      cogs == rep.netRevenue - rep.grossProfit
  IN  /\ rep.netRevenue = KeptIn(rows, back, os)
      /\ rep.netRevenue >= 0
      /\ rep.complete =>
           cogs = SumFunction([x \in LinesOf(rows, os) |-> LineCost(rows, x)])
      /\ rep.netProfit + cogs
           = SumFunction([day \in rep.period.from .. rep.period.to |->
                            DayProfit(rows, back, spent, os, day)])
      /\ rep.pending = BackOn(back, DOMAIN back) - BackOn(back, Completed(back))

\* What the second half of a report computes from what the first half read.
ReportGiven(rep, os, revenue, cogs, period, back, spent) ==
  /\ rep.period = period
  /\ rep.netRevenue = revenue - BackOn(back, SentIn(back, os))
  /\ rep.grossProfit = rep.netRevenue - cogs
  /\ rep.netProfit = rep.grossProfit - SpentOn(spent, EntriesIn(spent, period))
  /\ rep.pending = BackOn(back, DOMAIN back \ Completed(back))

\* A report whose orders are still the delivered ones says what it should.
LEMMA ReportAddsUp ==
  ASSUME NEW rows, NEW back, NEW spent, ReportRowsFit(rows, back, spent),
         NEW period, period.from \in Int, period.to \in Int,
         NEW rep, NEW os, os = DeliveredIn(rows, period),
         ReportGiven(rep, os, SoldIn(rows, os), CostIn(rows, os), period, back, spent),
         rep.complete => \A o \in os : CostedOf(rows[o].items) = DOMAIN rows[o].items
  PROVE  ReportTrue(rep, rows, back, spent)
<1>1. os \in SUBSET DOMAIN rows
  BY DEF DeliveredIn
<1>2. /\ SoldIn(rows, os) - BackOn(back, SentIn(back, os)) = KeptIn(rows, back, os)
      /\ KeptIn(rows, back, os) \in Nat
  BY <1>1, NetIsKept
<1>3. /\ rep.netRevenue = KeptIn(rows, back, os)
      /\ rep.netRevenue >= 0
  BY <1>2 DEF ReportGiven
<1>4. CostIn(rows, os) \in Int
  <2>. DEFINE g == [o \in os |-> CostOf(rows[o].items)]
  <2>1. IsFiniteSet(os)
    BY <1>1, RowsAreFinite, FS_Subset
  <2>2. \A o \in os : g[o] \in Int
    BY <1>1, RowsAreFinite, ItemsFit
  <2>3. CostIn(rows, os) = SumFunctionOnSet(g, os)
    BY DEF CostIn, SumFunction
  <2>. HIDE DEF g
  <2>. QED
    BY <2>1, <2>2, <2>3, SumIsInt
<1>5. rep.netRevenue - rep.grossProfit = CostIn(rows, os)
  BY <1>2, <1>3, <1>4 DEF ReportGiven
<1>6. rep.complete =>
        rep.netRevenue - rep.grossProfit
          = SumFunction([x \in LinesOf(rows, os) |-> LineCost(rows, x)])
  BY <1>1, <1>5, CostsAreLines
<1>7. SpentOn(spent, EntriesIn(spent, period)) \in Nat
  <2>1. EntriesIn(spent, period) \in SUBSET DOMAIN spent
    BY DEF EntriesIn
  <2>. QED
    BY <2>1, SpentFits
<1>8. rep.netProfit + (rep.netRevenue - rep.grossProfit)
        = KeptIn(rows, back, os) - SpentOn(spent, EntriesIn(spent, period))
  BY <1>2, <1>3, <1>4, <1>5, <1>7 DEF ReportGiven
<1>9. rep.netProfit + (rep.netRevenue - rep.grossProfit)
        = SumFunction([day \in period.from .. period.to |->
                         DayProfit(rows, back, spent, os, day)])
  BY <1>8, DaysAddUp
<1>10. rep.pending = BackOn(back, DOMAIN back) - BackOn(back, Completed(back))
  <2>1. /\ IsFiniteSet(DOMAIN back) /\ \A f \in DOMAIN back : back[f].amount \in Nat
        /\ DOMAIN back \in SUBSET DOMAIN back
        /\ Completed(back) \in SUBSET DOMAIN back
    BY RowsAreFinite DEF Completed
  <2>2. /\ BackOn(back, DOMAIN back) \in Nat /\ BackOn(back, Completed(back)) \in Nat
        /\ BackOn(back, DOMAIN back)
             = BackOn(back, Completed(back))
                 + BackOn(back, DOMAIN back \ Completed(back))
    BY <2>1, BackFits
  <2>3. DOMAIN back \ Completed(back) \in SUBSET DOMAIN back
    OBVIOUS
  <2>4. BackOn(back, DOMAIN back \ Completed(back)) \in Nat
    BY <2>1, <2>3, BackFits
  <2>. QED
    BY <2>2, <2>4 DEF ReportGiven
<1>11. rep.period = period
  BY DEF ReportGiven
<1>. QED
  BY <1>3, <1>6, <1>9, <1>10, <1>11 DEF ReportTrue

-----------------------------------------------------------------------------

\* What a request read of the orders is still so of those it read.
ReportJobFits(j, rows) ==
  /\ j.step \in {"idle", "refunds"}
  /\ j.step = "refunds" =>
       /\ j.period.from \in Int /\ j.period.to \in Int
       /\ j.orders \subseteq DOMAIN rows
       /\ j.revenue = SoldIn(rows, j.orders)
       /\ j.cogs = CostIn(rows, j.orders)
       /\ j.complete =>
            \A o \in j.orders : CostedOf(rows[o].items) = DOMAIN rows[o].items

\* A report stands until something it is about changes.
ReportsInv ==
  /\ JobsOK /\ today \in Int
  /\ ReportRowsFit(sales, returned, expenses)
  /\ \A r \in Requests : ReportJobFits(job[r], sales)
  /\ report.asked /\ ~overtaken => ReportTrue(report, sales, returned, expenses)

\* The same, in the words of the model.
LEMMA ReportsAsModelled ==
  /\ \A o : totalAmount(sales[o]) = TotalOf(sales[o].items)
  /\ \A o : orderCost(o) = CostOf(sales[o].items)
  /\ \A o : costedItems(o) = CostedOf(sales[o].items)
  /\ \A o : Kept(o) = KeptOf(sales, returned, o)
  /\ \A o : RefundedSoFar(o) = BackOn(returned, BackFor(returned, o))
  /\ \A period : Delivered(period) = DeliveredIn(sales, period)
  /\ pendingRefunds = BackOn(returned, DOMAIN returned \ Completed(returned))
  /\ \A period : expensesOf(period) = SpentOn(expenses, EntriesIn(expenses, period))
  /\ \A period : refundsOf(period)
                   = BackOn(returned, SentIn(returned, Delivered(period)))
<1>1. \A o : totalAmount(sales[o]) = TotalOf(sales[o].items)
  BY DEF totalAmount, TotalOf, Amount
<1>2. \A o : costedItems(o) = CostedOf(sales[o].items)
  BY DEF costedItems, CostedOf
<1>3. \A o : orderCost(o) = CostOf(sales[o].items)
  BY <1>2 DEF orderCost, CostOf, Amount
<1>4. \A o : Kept(o) = KeptOf(sales, returned, o)
  BY <1>1 DEF Kept, KeptOf, Amount, BackOn, SentFor
<1>5. \A o : RefundedSoFar(o) = BackOn(returned, BackFor(returned, o))
  BY DEF RefundedSoFar, Amount, BackOn, BackFor
<1>6. \A period : Delivered(period) = DeliveredIn(sales, period)
  BY DEF Delivered, DeliveredIn
<1>7. pendingRefunds = BackOn(returned, DOMAIN returned \ Completed(returned))
  BY DEF pendingRefunds, Amount, BackOn
<1>8. \A period : expensesOf(period) = SpentOn(expenses, EntriesIn(expenses, period))
  BY DEF expensesOf, Amount, SpentOn, EntriesIn
<1>9. \A period : refundsOf(period)
                    = BackOn(returned, SentIn(returned, Delivered(period)))
  BY DEF refundsOf, Amount, BackOn, SentIn
<1>. QED
  BY <1>1, <1>2, <1>3, <1>4, <1>5, <1>6, <1>7, <1>8, <1>9

\* A report that says what it should is a true one.
LEMMA TrueReport ==
  ASSUME report.asked /\ ~overtaken => ReportTrue(report, sales, returned, expenses)
  PROVE  ReportIsTrue
<1>. SUFFICES ASSUME report.asked, ~overtaken PROVE ReportIsTrue
  BY DEF ReportIsTrue
<1>. DEFINE os == Delivered(report.period)
            days == report.period.from .. report.period.to
<1>1. os = DeliveredIn(sales, report.period)
  BY ReportsAsModelled
<1>2. ReportTrue(report, sales, returned, expenses)
  OBVIOUS
<1>3. Amount(os, Kept) = KeptIn(sales, returned, os)
  BY ReportsAsModelled DEF Amount, KeptIn
<1>4. \A day : Amount({o \in os : sales[o].placed = day}, Kept)
                 = KeptOn(sales, returned, os, day)
  BY ReportsAsModelled DEF Amount, KeptOn, KeptIn
<1>5. \A day : Amount({e \in DOMAIN expenses : expenses[e].spentOn = day},
                      LAMBDA e : expenses[e].amount)
                 = SpentThatDay(expenses, day)
  BY DEF Amount, SpentThatDay, SpentOn
<1>6. /\ Amount(DOMAIN returned, LAMBDA f : returned[f].amount)
           = BackOn(returned, DOMAIN returned)
      /\ Amount(Completed(returned), LAMBDA f : returned[f].amount)
           = BackOn(returned, Completed(returned))
  BY DEF Amount, BackOn
<1>. HIDE DEF os
<1>. DEFINE kept(day) == Amount({o \in os : sales[o].placed = day}, Kept)
            spent(day) == Amount({e \in DOMAIN expenses : expenses[e].spentOn = day},
                                 LAMBDA e : expenses[e].amount)
            profit(day) == kept(day) - spent(day)
            Lns == UNION {{<<o, i>> : i \in DOMAIN sales[o].items} : o \in os}
<1>7. \A day : profit(day) = DayProfit(sales, returned, expenses, os, day)
  BY <1>4, <1>5 DEF DayProfit
<1>. HIDE DEF profit
<1>8. Amount(days, profit)
        = SumFunction([day \in days |-> DayProfit(sales, returned, expenses, os, day)])
  BY <1>7 DEF Amount
<1>9. Lns = LinesOf(sales, os)
  BY DEF LinesOf
<1>. HIDE DEF Lns
<1>10. Amount(Lns, LAMBDA x : sales[x[1]].items[x[2]].quantity
                                * sales[x[1]].items[x[2]].unitCost)
         = SumFunction([x \in LinesOf(sales, os) |-> LineCost(sales, x)])
  BY <1>9 DEF Amount, LineCost
<1>. QED
  BY <1>1, <1>2, <1>3, <1>6, <1>8, <1>9, <1>10
     DEF ReportTrue, ReportIsTrue, os, days, profit, Lns

\* There are no rows at first.
LEMMA ReportsInitInv == ReportsInit => ReportsInv
<1>. SUFFICES ASSUME ReportsInit PROVE ReportsInv
  OBVIOUS
<1>1. JobsOK /\ \A r \in Requests : job[r].step = "idle"
  BY Starting DEF ReportsInit
<1>2. \A r \in Requests : ReportJobFits(job[r], sales)
  BY <1>1 DEF ReportJobFits
<1>3. /\ today \in Int /\ ~report.asked
      /\ sales = <<>> /\ returned = <<>> /\ expenses = <<>>
  BY DEF ReportsInit
<1>4. ReportRowsFit(sales, returned, expenses)
  <2>1. sales \in Seq(Sale) /\ returned \in Seq(GivenBack)
    BY <1>3
  <2>2. DOMAIN sales = {} /\ DOMAIN returned = {} /\ DOMAIN expenses = {}
    BY <1>3
  <2>. QED
    BY <2>1, <2>2 DEF ReportRowsFit
<1>. QED
  BY <1>1, <1>2, <1>3, <1>4 DEF ReportsInv

\* The first half of a report reads the delivered orders of a period.
LEMMA ReadOrdersStep ==
  ASSUME ReportsInv, NEW r \in Requests, ReadOrders(r)
  PROVE  ReportsInv'
<1>1. PICK period \in Periods \cup {window} :
        /\ Begin(r, [step |-> "refunds", period |-> period,
                     orders |-> Delivered(period),
                     revenue |-> Amount(Delivered(period),
                                        LAMBDA o : totalAmount(sales[o])),
                     cogs |-> Amount(Delivered(period), LAMBDA o : orderCost(o)),
                     complete |-> \A o \in Delivered(period) :
                                    costedItems(o) = DOMAIN sales[o].items])
        /\ UNCHANGED reportVars
  BY DEF ReadOrders
<1>. DEFINE os == Delivered(period)
            what == [step |-> "refunds", period |-> period, orders |-> os,
                     revenue |-> Amount(os, LAMBDA o : totalAmount(sales[o])),
                     cogs |-> Amount(os, LAMBDA o : orderCost(o)),
                     complete |-> \A o \in os : costedItems(o) = DOMAIN sales[o].items]
<1>2. /\ what.step = "refunds" /\ what.period = period /\ what.orders = os
      /\ what.revenue = SoldIn(sales, os) /\ what.cogs = CostIn(sales, os)
      /\ what.complete => \A o \in os : CostedOf(sales[o].items) = DOMAIN sales[o].items
  <2>1. Amount(os, LAMBDA o : totalAmount(sales[o])) = SoldIn(sales, os)
    BY ReportsAsModelled DEF Amount, SoldIn
  <2>2. Amount(os, LAMBDA o : orderCost(o)) = CostIn(sales, os)
    BY ReportsAsModelled DEF Amount, CostIn
  <2>. QED
    BY <2>1, <2>2, ReportsAsModelled
<1>3. DOMAIN what = {"step", "period", "orders", "revenue", "cogs", "complete"}
  OBVIOUS
<1>4. period.from \in Int /\ period.to \in Int
  BY DaysBound DEF Periods, window, ReportsInv
<1>5. os \subseteq DOMAIN sales
  BY DEF Delivered
<1>6. JobsOK /\ Begin(r, what) /\ "step" \in DOMAIN what
  BY <1>1, <1>3 DEF ReportsInv
<1>. HIDE DEF what, os
<1>7. /\ JobsOK' /\ overtaken' = overtaken
      /\ \A q \in Requests \ {r} : job'[q] = job[q]
      /\ \A f \in DOMAIN what : job'[r][f] = what[f]
  BY ONLY r \in Requests, <1>6, Beginning, SMTT(60)
<1>8. /\ job'[r].step = "refunds" /\ job'[r].period = period /\ job'[r].orders = os
      /\ job'[r].revenue = SoldIn(sales, os) /\ job'[r].cogs = CostIn(sales, os)
      /\ job'[r].complete = what.complete
  BY <1>2, <1>3, <1>7
<1>9. ReportJobFits(job'[r], sales)
  BY <1>2, <1>4, <1>5, <1>8 DEF ReportJobFits
<1>10. \A q \in Requests : ReportJobFits(job'[q], sales)
  BY <1>7, <1>9 DEF ReportsInv
<1>. QED
  BY <1>1, <1>7, <1>10 DEF ReportsInv, reportVars

\* The second half reads the refunds and expenses, and gives the report out.
LEMMA ReadRefundsStep ==
  ASSUME ReportsInv, NEW r \in Requests, ReadRefunds(r)
  PROVE  ReportsInv'
<1>. DEFINE j == job[r]
            stale == Delivered(j.period) # j.orders
            net == j.revenue - refundsOf(j.period)
<1>1. /\ j.step = "refunds"
      /\ report' = [asked |-> TRUE, period |-> j.period, netRevenue |-> net,
                    grossProfit |-> net - j.cogs,
                    netProfit |-> (net - j.cogs) - expensesOf(j.period),
                    pending |-> pendingRefunds, complete |-> j.complete]
      /\ Settle(r, stale)
      /\ UNCHANGED <<today, sales, returned, expenses>>
  BY DEF ReadRefunds, At
<1>2. JobsOK /\ stale \in BOOLEAN /\ Settle(r, stale)
  BY <1>1 DEF ReportsInv
<1>3. /\ JobsOK' /\ overtaken' = (overtaken \/ stale)
      /\ \A q \in Requests \ {r} : job'[q] = job[q]
      /\ job'[r].step = "idle"
  <2>. HIDE DEF stale
  <2>. QED
    BY ONLY r \in Requests, <1>2, Settling
<1>4. \A q \in Requests : ReportJobFits(job'[q], sales)
  <2>1. ReportJobFits(job'[r], sales)
    BY <1>3 DEF ReportJobFits
  <2>. QED
    BY <1>3, <2>1 DEF ReportsInv
<1>5. ASSUME ~overtaken' PROVE ReportTrue(report', sales, returned, expenses)
  <2>1. Delivered(j.period) = j.orders
    BY <1>3, <1>5
  <2>2. /\ j.period.from \in Int /\ j.period.to \in Int
        /\ j.revenue = SoldIn(sales, j.orders) /\ j.cogs = CostIn(sales, j.orders)
        /\ j.complete =>
             \A o \in j.orders : CostedOf(sales[o].items) = DOMAIN sales[o].items
    BY <1>1 DEF ReportsInv, ReportJobFits
  <2>3. j.orders = DeliveredIn(sales, j.period)
    BY <2>1, ReportsAsModelled
  <2>4. /\ report'.period = j.period /\ report'.netRevenue = net
        /\ report'.grossProfit = net - j.cogs
        /\ report'.netProfit = (net - j.cogs) - expensesOf(j.period)
        /\ report'.pending = pendingRefunds /\ report'.complete = j.complete
    BY <1>1
  <2>5. net = j.revenue - BackOn(returned, SentIn(returned, j.orders))
    BY <2>1, ReportsAsModelled
  <2>6. ReportGiven(report', j.orders, SoldIn(sales, j.orders),
                    CostIn(sales, j.orders), j.period, returned, expenses)
    <3>. HIDE DEF net
    <3>. QED
      BY <2>2, <2>4, <2>5, ReportsAsModelled DEF ReportGiven
  <2>7. ReportRowsFit(sales, returned, expenses)
    BY DEF ReportsInv
  <2>8. report'.complete =>
          \A o \in j.orders : CostedOf(sales[o].items) = DOMAIN sales[o].items
    BY <2>2, <2>4
  <2>. HIDE DEF j
  <2>. QED
    BY <2>2, <2>3, <2>6, <2>7, <2>8, ReportAddsUp
<1>. QED
  BY <1>1, <1>3, <1>4, <1>5 DEF ReportsInv

\* An order's lines never change, so what a request read of them stays so.
LEMMA JobsKeepReading ==
  ASSUME NEW rows, NEW new, DOMAIN rows \subseteq DOMAIN new,
         \A o \in DOMAIN rows : new[o].items = rows[o].items,
         NEW j, ReportJobFits(j, rows)
  PROVE  ReportJobFits(j, new)
<1>. SUFFICES ASSUME j.step = "refunds"
              PROVE  /\ j.orders \subseteq DOMAIN new
                     /\ j.revenue = SoldIn(new, j.orders)
                     /\ j.cogs = CostIn(new, j.orders)
                     /\ j.complete =>
                          \A o \in j.orders :
                            CostedOf(new[o].items) = DOMAIN new[o].items
  BY DEF ReportJobFits
<1>1. \A o \in j.orders : o \in DOMAIN rows /\ new[o].items = rows[o].items
  BY DEF ReportJobFits
<1>2. SoldIn(new, j.orders) = SoldIn(rows, j.orders)
  BY <1>1 DEF SoldIn
<1>3. CostIn(new, j.orders) = CostIn(rows, j.orders)
  BY <1>1 DEF CostIn
<1>. QED
  BY <1>1, <1>2, <1>3 DEF ReportJobFits

\* Any change of the rows takes the last report back.
LEMMA RowsChange ==
  ASSUME ReportsInv, UNCHANGED inFlight, today' = today,
         report' = [asked |-> FALSE],
         ReportRowsFit(sales', returned', expenses'),
         DOMAIN sales \subseteq DOMAIN sales',
         \A o \in DOMAIN sales : sales'[o].items = sales[o].items
  PROVE  ReportsInv'
<1>1. JobsOK' /\ job' = job
  BY DEF ReportsInv, JobsOK, inFlight
<1>2. \A r \in Requests : ReportJobFits(job[r], sales')
  BY JobsKeepReading DEF ReportsInv
<1>. QED
  BY <1>1, <1>2 DEF ReportsInv

\* An order's total is never negative.
LEMMA TotalIsNat ==
  ASSUME NEW items \in Lines
  PROVE  TotalOf(items) \in Nat
<1>. DEFINE f == [i \in DOMAIN items |-> items[i].quantity * items[i].unitPrice]
<1>1. items \in Seq(OrderItem)
  BY LinesAssumption
<1>2. \A i \in DOMAIN items : items[i].quantity \in Nat /\ items[i].unitPrice \in Nat
  <2>1. \A i \in DOMAIN items : items[i] \in OrderItem
    BY <1>1
  <2>. QED
    BY <2>1 DEF OrderItem
<1>3. \A m, n \in Nat : m * n \in Nat
  OBVIOUS
<1>4. DOMAIN f = DOMAIN items /\ \A i \in DOMAIN items : f[i] \in Nat
  BY <1>2, <1>3
<1>5. TotalOf(items) = SumFunctionOnSet(f, DOMAIN items)
  BY DEF TotalOf, SumFunction
<1>. HIDE DEF f
<1>. QED
  BY <1>4, <1>5, ItemsFit, SumCovers

\* A new order is pending and has no refunds.
LEMMA PlaceStep ==
  ASSUME ReportsInv, Place
  PROVE  ReportsInv'
<1>1. PICK lines \in Lines :
        /\ sales' = Append(sales, [items |-> lines, placed |-> today,
                                   status |-> "PENDING"])
        /\ report' = [asked |-> FALSE]
        /\ UNCHANGED <<today, returned, expenses, inFlight>>
  BY DEF Place
<1>. DEFINE row == [items |-> lines, placed |-> today, status |-> "PENDING"]
            n == Len(sales)
<1>2. ReportRowsFit(sales, returned, expenses) /\ today \in Int
  BY DEF ReportsInv
<1>3. sales \in Seq(Sale) /\ row \in Sale /\ row.items = lines
  BY <1>2 DEF ReportRowsFit, Sale
<1>. HIDE DEF row
<1>4. /\ sales' \in Seq(Sale) /\ DOMAIN sales' = DOMAIN sales \cup {n + 1}
      /\ n + 1 \notin DOMAIN sales
      /\ sales'[n + 1] = row /\ \A o \in DOMAIN sales : sales'[o] = sales[o]
  BY <1>1, <1>3 DEF row
<1>5. BackOn(returned, BackFor(returned, n + 1)) = 0
  <2>1. BackFor(returned, n + 1) = {}
    BY <1>2, <1>4 DEF BackFor, ReportRowsFit
  <2>. QED
    BY <2>1, SumOfNone DEF BackOn, SumFunction
<1>6. TotalOf(lines) \in Nat
  BY TotalIsNat
<1>7. \A o \in DOMAIN sales' :
        BackOn(returned, BackFor(returned, o)) <= TotalOf(sales'[o].items)
  <2>1. BackOn(returned, BackFor(returned, n + 1)) <= TotalOf(sales'[n + 1].items)
    BY <1>3, <1>4, <1>5, <1>6
  <2>2. \A o \in DOMAIN sales :
          BackOn(returned, BackFor(returned, o)) <= TotalOf(sales'[o].items)
    BY <1>2, <1>4 DEF ReportRowsFit
  <2>. QED
    BY <1>4, <2>1, <2>2
<1>8. ReportRowsFit(sales', returned', expenses')
  BY <1>1, <1>2, <1>4, <1>7 DEF ReportRowsFit
<1>. QED
  BY <1>1, <1>4, <1>8, RowsChange

\* An order that moves keeps its lines.
LEMMA MoveStep ==
  ASSUME ReportsInv, NEW from, NEW to \in {"DELIVERED", "RETURNED"}, Move(from, to)
  PROVE  ReportsInv'
<1>1. PICK o \in DOMAIN sales :
        /\ sales' = [sales EXCEPT ![o].status = to]
        /\ report' = [asked |-> FALSE]
        /\ UNCHANGED <<today, returned, expenses, inFlight>>
  BY DEF Move
<1>2. ReportRowsFit(sales, returned, expenses) /\ sales \in Seq(Sale)
  BY DEF ReportsInv, ReportRowsFit
<1>3. /\ sales' \in Seq(Sale) /\ DOMAIN sales' = DOMAIN sales
      /\ \A q \in DOMAIN sales : sales'[q].items = sales[q].items
  <2>1. \A q \in DOMAIN sales : sales[q] \in Sale
    BY <1>2
  <2>2. sales' = [q \in DOMAIN sales |->
                    IF q = o THEN [sales[q] EXCEPT !.status = to] ELSE sales[q]]
    BY <1>1
  <2>3. \A q \in DOMAIN sales : /\ sales'[q] \in Sale
                                /\ sales'[q].items = sales[q].items
    BY <2>1, <2>2 DEF Sale
  <2>4. DOMAIN sales = 1 .. Len(sales) /\ Len(sales) \in Nat
    BY <1>2
  <2>. QED
    BY <2>2, <2>3, <2>4
<1>4. ReportRowsFit(sales', returned', expenses')
  BY <1>1, <1>2, <1>3 DEF ReportRowsFit
<1>. QED
  BY <1>1, <1>3, <1>4, RowsChange

\* A refund is raised only within what is left of its order.
LEMMA RefundStep ==
  ASSUME ReportsInv, Refund
  PROVE  ReportsInv'
<1>1. PICK o \in DOMAIN sales, amount \in Amounts, completed \in BOOLEAN :
        /\ RefundedSoFar(o) + amount <= totalAmount(sales[o])
        /\ returned' = Append(returned, [order |-> o, amount |-> amount,
                                         recorded |-> today,
                                         completed |-> completed])
        /\ report' = [asked |-> FALSE]
        /\ UNCHANGED <<today, sales, expenses, inFlight>>
  BY DEF Refund
<1>. DEFINE row == [order |-> o, amount |-> amount, recorded |-> today,
                    completed |-> completed]
            n == Len(returned)
<1>2. ReportRowsFit(sales, returned, expenses) /\ today \in Int
  BY DEF ReportsInv
<1>3. /\ sales \in Seq(Sale) /\ returned \in Seq(GivenBack)
      /\ row.order = o /\ row.amount = amount
  BY <1>2 DEF ReportRowsFit
<1>4. o \in Nat
  BY <1>3
<1>5. row \in GivenBack
  BY <1>2, <1>4 DEF GivenBack
<1>. HIDE DEF row
<1>6. /\ returned' \in Seq(GivenBack)
      /\ DOMAIN returned' = DOMAIN returned \cup {n + 1}
      /\ n + 1 \notin DOMAIN returned
      /\ returned'[n + 1] = row
      /\ \A f \in DOMAIN returned : returned'[f] = returned[f]
  BY <1>1, <1>3, <1>5 DEF row
<1>7. IsFiniteSet(DOMAIN returned) /\ \A f \in DOMAIN returned : returned[f].amount \in Nat
  BY <1>2, RowsAreFinite
<1>8. amount \in Nat
  BY AmountsAssumption
<1>9. BackOn(returned', BackFor(returned', o)) <= TotalOf(sales[o].items)
  <2>. DEFINE S == BackFor(returned, o)
              f == [x \in S |-> returned[x].amount]
              g == [x \in S \cup {n + 1} |-> returned'[x].amount]
  <2>1. S \subseteq DOMAIN returned /\ BackFor(returned', o) = S \cup {n + 1}
    BY <1>3, <1>6 DEF BackFor
  <2>2. IsFiniteSet(S) /\ n + 1 \notin S
    BY <1>6, <1>7, <2>1, FS_Subset
  <2>3. /\ BackOn(returned, S) = SumFunctionOnSet(f, S)
        /\ BackOn(returned', S \cup {n + 1}) = SumFunctionOnSet(g, S \cup {n + 1})
    BY DEF BackOn, SumFunction
  <2>4. /\ \A x \in S : f[x] \in Int /\ g[x] = f[x] /\ g[x] \in Int
        /\ g[n + 1] = amount
    BY <1>3, <1>6, <1>7, <2>1
  <2>. HIDE DEF S, f, g
  <2>5. SumFunctionOnSet(g, S \cup {n + 1}) = SumFunctionOnSet(g, S) + amount
    <3>1. g[n + 1] \in Int
      BY <1>8, <2>4
    <3>. QED
      BY <2>2, <2>4, <3>1, SumInsert
  <2>6. SumFunctionOnSet(g, S) = SumFunctionOnSet(f, S)
    BY <2>2, <2>4, SumSame
  <2>7. RefundedSoFar(o) = BackOn(returned, S) /\ totalAmount(sales[o]) = TotalOf(sales[o].items)
    BY ReportsAsModelled DEF S
  <2>. QED
    BY <1>1, <2>1, <2>3, <2>5, <2>6, <2>7
<1>10. ASSUME NEW q \in DOMAIN sales, q # o
       PROVE  BackOn(returned', BackFor(returned', q)) <= TotalOf(sales[q].items)
  <2>1. BackFor(returned', q) = BackFor(returned, q)
    BY <1>3, <1>6, <1>10 DEF BackFor
  <2>2. BackOn(returned', BackFor(returned, q)) = BackOn(returned, BackFor(returned, q))
    BY <1>6 DEF BackOn, BackFor
  <2>. QED
    BY <1>2, <2>1, <2>2 DEF ReportRowsFit
<1>11. \A f \in DOMAIN returned' : returned'[f].order \in DOMAIN sales
  BY <1>2, <1>3, <1>6 DEF ReportRowsFit
<1>12. ReportRowsFit(sales, returned', expenses)
  BY <1>2, <1>6, <1>9, <1>10, <1>11 DEF ReportRowsFit
<1>. QED
  BY <1>1, <1>12, RowsChange

\* Completing a refund changes neither its order nor its amount.
LEMMA CompleteStep ==
  ASSUME ReportsInv, Complete
  PROVE  ReportsInv'
<1>1. PICK f \in DOMAIN returned :
        /\ returned' = [returned EXCEPT ![f].completed = TRUE]
        /\ report' = [asked |-> FALSE]
        /\ UNCHANGED <<today, sales, expenses, inFlight>>
  BY DEF Complete
<1>2. ReportRowsFit(sales, returned, expenses) /\ returned \in Seq(GivenBack)
  BY DEF ReportsInv, ReportRowsFit
<1>3. /\ returned' \in Seq(GivenBack) /\ DOMAIN returned' = DOMAIN returned
      /\ \A x \in DOMAIN returned : /\ returned'[x].order = returned[x].order
                                    /\ returned'[x].amount = returned[x].amount
  <2>1. \A x \in DOMAIN returned : returned[x] \in GivenBack
    BY <1>2
  <2>2. returned' = [x \in DOMAIN returned |->
                       IF x = f THEN [returned[x] EXCEPT !.completed = TRUE]
                       ELSE returned[x]]
    BY <1>1
  <2>3. \A x \in DOMAIN returned : /\ returned'[x] \in GivenBack
                                   /\ returned'[x].order = returned[x].order
                                   /\ returned'[x].amount = returned[x].amount
    BY <2>1, <2>2 DEF GivenBack
  <2>4. DOMAIN returned = 1 .. Len(returned) /\ Len(returned) \in Nat
    BY <1>2
  <2>. QED
    BY <2>2, <2>3, <2>4
<1>4. \A o : BackOn(returned', BackFor(returned', o)) = BackOn(returned, BackFor(returned, o))
  <2>. SUFFICES ASSUME NEW o
                PROVE  BackOn(returned', BackFor(returned', o))
                         = BackOn(returned, BackFor(returned, o))
    OBVIOUS
  <2>1. BackFor(returned', o) = BackFor(returned, o)
    BY <1>3 DEF BackFor
  <2>2. BackOn(returned', BackFor(returned, o)) = BackOn(returned, BackFor(returned, o))
    BY <1>3 DEF BackOn, BackFor
  <2>. QED
    BY <2>1, <2>2
<1>5. ReportRowsFit(sales, returned', expenses)
  BY <1>2, <1>3, <1>4 DEF ReportRowsFit
<1>. QED
  BY <1>1, <1>5, RowsChange

\* Expenses of whole amounts.
LEMMA SaveExpenseStep ==
  ASSUME ReportsInv, SaveExpense
  PROVE  ReportsInv'
<1>1. PICK e \in 1 .. MaxExpenses, day \in 1 .. Days, amount \in Amounts :
        /\ expenses' = Saved(expenses, e, [spentOn |-> day, amount |-> amount])
        /\ report' = [asked |-> FALSE]
        /\ UNCHANGED <<today, sales, returned, inFlight>>
  BY DEF SaveExpense
<1>2. ReportRowsFit(sales, returned, expenses)
  BY DEF ReportsInv
<1>3. [spentOn |-> day, amount |-> amount] \in Expense
  BY DEF Expense
<1>4. /\ DOMAIN expenses' = DOMAIN expenses \cup {e}
      /\ \A x \in DOMAIN expenses' : expenses'[x] \in Expense
  <2>. DEFINE row == [spentOn |-> day, amount |-> amount]
  <2>1. row \in Expense /\ expenses' = Saved(expenses, e, row)
    BY <1>1, <1>3
  <2>. HIDE DEF row
  <2>2. /\ DOMAIN expenses' = DOMAIN expenses \cup {e}
        /\ expenses'[e] = row
        /\ \A x \in DOMAIN expenses \ {e} : expenses'[x] = expenses[x]
    BY <2>1 DEF Saved
  <2>3. \A x \in DOMAIN expenses : expenses[x] \in Expense
    BY <1>2 DEF ReportRowsFit
  <2>4. \A x \in DOMAIN expenses' : x = e \/ x \in DOMAIN expenses \ {e}
    BY <2>2
  <2>. QED
    BY <2>1, <2>2, <2>3, <2>4
<1>5. ReportRowsFit(sales, returned, expenses')
  BY <1>2, <1>4 DEF ReportRowsFit
<1>. QED
  BY <1>1, <1>5, RowsChange

LEMMA RemoveExpenseStep ==
  ASSUME ReportsInv, RemoveExpense
  PROVE  ReportsInv'
<1>1. PICK e \in DOMAIN expenses :
        /\ expenses' = Removed(expenses, e)
        /\ report' = [asked |-> FALSE]
        /\ UNCHANGED <<today, sales, returned, inFlight>>
  BY DEF RemoveExpense
<1>2. ReportRowsFit(sales, returned, expenses)
  BY DEF ReportsInv
<1>3. /\ DOMAIN expenses' = DOMAIN expenses \ {e}
      /\ \A x \in DOMAIN expenses' : expenses'[x] = expenses[x]
  BY <1>1, RemovedLeaves
<1>4. ReportRowsFit(sales, returned, expenses')
  BY <1>2, <1>3 DEF ReportRowsFit
<1>. QED
  BY <1>1, <1>4, RowsChange

\* A day that passes changes no rows, and neither does nothing.
LEMMA DayPasses ==
  ASSUME ReportsInv, NextDay \/ UNCHANGED <<reportVars, inFlight>>
  PROVE  ReportsInv'
<1>1. UNCHANGED <<sales, returned, expenses, report, inFlight>> /\ today' \in Int
  BY DEF ReportsInv, NextDay, reportVars
<1>. QED
  BY <1>1 DEF ReportsInv, JobsOK, inFlight

\* Every step of the reports preserves the invariant.
LEMMA ReportsNextInv ==
  ReportsInv /\ [ReportsNext]_<<reportVars, inFlight>> => ReportsInv'
<1>. SUFFICES ASSUME ReportsInv, [ReportsNext]_<<reportVars, inFlight>>
              PROVE  ReportsInv'
  OBVIOUS
<1>. QED
  BY ReadOrdersStep, ReadRefundsStep, PlaceStep, MoveStep, RefundStep, CompleteStep,
     SaveExpenseStep, RemoveExpenseStep, DayPasses DEF ReportsNext

\* A report computed while nothing it is about changes between its queries is
\* true: its net revenue is what each delivered order kept, never negative, its
\* costs are those of every line sold, its days add up, and no refund is both
\* deducted and owed. This is reports.service.ts, profitAndLoss, for any number
\* of orders, refunds and expenses.
THEOREM ReportsAreTrue == ReportsSpec => []ReportIsTrue
<1>1. ReportsInv => ReportIsTrue
  BY TrueReport DEF ReportsInv
<1>. QED
  BY <1>1, ReportsInitInv, ReportsNextInv, PTL DEF ReportsSpec

\* Nothing is placed, recorded or spent but on a day that there is.
DatesFit(rows, back, spent, day) ==
  /\ day \in 1 .. Days \/ day = 1
  /\ \A o \in DOMAIN rows : rows[o].placed \in 1 .. day
  /\ \A f \in DOMAIN back : back[f].recorded \in 1 .. day
  /\ \A e \in DOMAIN spent : spent[e].spentOn \in 1 .. Days

ReportsFit == ReportsInv /\ DatesFit(sales, returned, expenses, today)

\* Rows with fitting dates are of their types.
LEMMA ReportsFitTypes == ReportsFit => ReportsTypeOK
<1>. SUFFICES ASSUME ReportsFit PROVE ReportsTypeOK
  OBVIOUS
<1>1. /\ sales \in Seq(Sale) /\ returned \in Seq(GivenBack)
      /\ \A e \in DOMAIN expenses : expenses[e] \in Expense
      /\ \A f \in DOMAIN returned : returned[f].order \in DOMAIN sales
  BY DEF ReportsFit, ReportsInv, ReportRowsFit
<1>2. /\ \A o \in DOMAIN sales : sales[o] \in Sale
      /\ \A f \in DOMAIN returned : returned[f] \in GivenBack
  BY <1>1
<1>. QED
  BY <1>1, <1>2 DEF ReportsFit, DatesFit, ReportsTypeOK, Sale, GivenBack, Expense

\* There are no dates at first but the first day.
LEMMA ReportsInitFit == ReportsInit => ReportsFit
BY ReportsInitInv DEF ReportsInit, ReportsFit, DatesFit

\* No step of the reports enters a date that is not there.
LEMMA ReportsNextFit ==
  ReportsFit /\ [ReportsNext]_<<reportVars, inFlight>> => ReportsFit'
<1>. SUFFICES ASSUME ReportsFit, [ReportsNext]_<<reportVars, inFlight>>
              PROVE  DatesFit(sales', returned', expenses', today')
  BY ReportsNextInv DEF ReportsFit
<1>0. /\ DatesFit(sales, returned, expenses, today)
      /\ sales \in Seq(Sale) /\ returned \in Seq(GivenBack)
      /\ today \in 1 .. today /\ today \in Int
  <2>1. /\ DatesFit(sales, returned, expenses, today)
        /\ sales \in Seq(Sale) /\ returned \in Seq(GivenBack)
        /\ today \in Int
    BY DEF ReportsFit, ReportsInv, ReportRowsFit
  <2>. QED
    BY <2>1, DaysBound DEF DatesFit
<1>1. CASE UNCHANGED <<today, sales, returned, expenses>>
  BY <1>0, <1>1
<1>2. CASE Place
  <2>1. PICK lines \in Lines :
          /\ sales' = Append(sales, [items |-> lines, placed |-> today,
                                     status |-> "PENDING"])
          /\ UNCHANGED <<today, returned, expenses>>
    BY <1>2 DEF Place
  <2>. PICK row : row = [items |-> lines, placed |-> today, status |-> "PENDING"]
    OBVIOUS
  <2>2. /\ sales' = Append(sales, row) /\ row.placed = today
    BY <2>1
  <2>3. \A o \in DOMAIN sales' : (o \in DOMAIN sales /\ sales'[o] = sales[o])
                                   \/ sales'[o] = row
    BY <1>0, <2>2
  <2>. QED
    BY <1>0, <2>1, <2>2, <2>3 DEF DatesFit
<1>3. ASSUME NEW from, NEW to, Move(from, to)
      PROVE  DatesFit(sales', returned', expenses', today')
  <2>1. PICK o \in DOMAIN sales :
          /\ sales' = [sales EXCEPT ![o].status = to]
          /\ UNCHANGED <<today, returned, expenses>>
    BY <1>3 DEF Move
  <2>2. \A q \in DOMAIN sales : sales[q] \in Sale
    BY <1>0
  <2>3. /\ DOMAIN sales' = DOMAIN sales
        /\ \A q \in DOMAIN sales : sales'[q].placed = sales[q].placed
    BY <2>1, <2>2 DEF Sale
  <2>. QED
    BY <1>0, <2>1, <2>3 DEF DatesFit
<1>4. CASE Refund
  <2>1. PICK o \in DOMAIN sales, amount \in Amounts, completed \in BOOLEAN :
          /\ returned' = Append(returned, [order |-> o, amount |-> amount,
                                           recorded |-> today,
                                           completed |-> completed])
          /\ UNCHANGED <<today, sales, expenses>>
    BY <1>4 DEF Refund
  <2>. PICK row : row = [order |-> o, amount |-> amount, recorded |-> today,
                         completed |-> completed]
    OBVIOUS
  <2>2. returned' = Append(returned, row) /\ row.recorded = today
    BY <2>1
  <2>3. \A f \in DOMAIN returned' :
          (f \in DOMAIN returned /\ returned'[f] = returned[f])
            \/ returned'[f] = row
    BY <1>0, <2>2
  <2>. QED
    BY <1>0, <2>1, <2>2, <2>3 DEF DatesFit
<1>5. CASE Complete
  <2>1. PICK f \in DOMAIN returned :
          /\ returned' = [returned EXCEPT ![f].completed = TRUE]
          /\ UNCHANGED <<today, sales, expenses>>
    BY <1>5 DEF Complete
  <2>2. \A q \in DOMAIN returned : returned[q] \in GivenBack
    BY <1>0
  <2>3. /\ DOMAIN returned' = DOMAIN returned
        /\ \A q \in DOMAIN returned : returned'[q].recorded = returned[q].recorded
    BY <2>1, <2>2 DEF GivenBack
  <2>. QED
    BY <1>0, <2>1, <2>3 DEF DatesFit
<1>6. CASE SaveExpense
  <2>1. PICK e \in 1 .. MaxExpenses, day \in 1 .. Days, amount \in Amounts :
          /\ expenses' = Saved(expenses, e, [spentOn |-> day, amount |-> amount])
          /\ UNCHANGED <<today, sales, returned>>
    BY <1>6 DEF SaveExpense
  <2>. PICK row : row = [spentOn |-> day, amount |-> amount]
    OBVIOUS
  <2>2. \A i \in DOMAIN expenses' :
          (i \in DOMAIN expenses /\ expenses'[i] = expenses[i])
            \/ expenses'[i] = row
    BY <2>1 DEF Saved
  <2>3. row.spentOn = day
    OBVIOUS
  <2>. QED
    BY <1>0, <2>1, <2>2, <2>3 DEF DatesFit
<1>7. CASE RemoveExpense
  BY <1>0, <1>7 DEF RemoveExpense, Removed, DatesFit
<1>8. CASE NextDay
  <2>1. /\ today < Days /\ today' = today + 1
        /\ UNCHANGED <<sales, returned, expenses>>
    BY <1>8 DEF NextDay
  <2>2. today' \in 1 .. Days /\ 1 .. today \subseteq 1 .. today'
    BY <1>0, <2>1, DaysBound
  <2>. QED
    BY <1>0, <2>1, <2>2 DEF DatesFit
<1>9. ASSUME NEW r \in Requests, ReadOrders(r) \/ ReadRefunds(r)
      PROVE  UNCHANGED <<today, sales, returned, expenses>>
  BY <1>9 DEF ReadOrders, ReadRefunds, reportVars
<1>. QED
  BY <1>1, <1>2, <1>3, <1>4, <1>5, <1>6, <1>7, <1>8, <1>9
     DEF ReportsNext, reportVars

(***************************************************************************)
(* Site content.                                                           *)
(***************************************************************************)

OnPost(j) == j.step \in {"slug", "post"}
NewPost(j) == OnPost(j) /\ j.new

\* What a request knows of its post: a new one is not there yet, and one that
\* was dated when it was read is dated if it is still there.
ContentJobFits(j, rows, n) ==
  /\ OnPost(j) =>
       /\ {"id", "new", "publish", "dated"} \subseteq DOMAIN j
       /\ j.id \in 1 .. n /\ j.new \in BOOLEAN
       /\ j.publish \in {"yes", "no", "kept"}
       /\ j.new => j.dated = Never /\ j.id \notin DOMAIN rows /\ j.publish # "kept"
       /\ ~j.new /\ j.dated # Never /\ j.id \in DOMAIN rows =>
            rows[j.id].publishedAt # Never
  /\ j.step = "wish" => "id" \in DOMAIN j /\ j.id \in Wishables

\* A post that is being created is nobody else's.
Apart(js) ==
  \A q, r \in Requests :
    q # r /\ NewPost(js[q]) /\ OnPost(js[r]) => js[q].id # js[r].id

PostsFit(rows, n) ==
  /\ DOMAIN rows \subseteq 1 .. n
  /\ \A p, q \in DOMAIN rows : rows[p].slug = rows[q].slug => p = q
  /\ \A p \in DOMAIN rows :
       /\ rows[p].published \in BOOLEAN
       /\ rows[p].publishedAt \in 0 .. n
       /\ rows[p].published => rows[p].publishedAt # Never

OthersFit ==
  /\ DOMAIN shown \subseteq Pages \cup Banners \cup Questions
  /\ settings \subseteq SettingKeys
  /\ onSale \subseteq Wishables /\ wishlist \subseteq Wishables

ContentInv ==
  /\ JobsOK /\ asked \in Nat
  /\ PostsFit(posts, asked) /\ OthersFit
  /\ \A r \in Requests : ContentJobFits(job[r], posts, asked)
  /\ Apart(job)

\* Posts that fit are dated and found under their slugs.
LEMMA ContentInvTypes == ContentInv => ContentTypeOK
<1>. SUFFICES ASSUME ContentInv PROVE ContentTypeOK
  OBVIOUS
<1>1. \A p \in publicPosts : posts[p].publishedAt \in 1 .. asked
  BY DEF ContentInv, PostsFit, publicPosts, Never
<1>. QED
  BY <1>1 DEF ContentInv, PostsFit, OthersFit, ContentTypeOK

\* The site starts without posts.
LEMMA ContentInitInv == ContentInit => ContentInv
<1>. SUFFICES ASSUME ContentInit PROVE ContentInv
  OBVIOUS
<1>1. RequestsInit /\ asked = 0 /\ DOMAIN posts = {}
  BY DEF ContentInit, RequestsInit
<1>2. JobsOK /\ \A r \in Requests : job[r].step = "idle"
  BY <1>1, Starting
<1>3. /\ \A r \in Requests : ContentJobFits(job[r], posts, asked)
      /\ Apart(job)
  BY <1>2 DEF ContentJobFits, OnPost, NewPost, Apart
<1>4. OthersFit
  BY DEF ContentInit, OthersFit
<1>. QED
  BY <1>1, <1>2, <1>3, <1>4 DEF ContentInv, PostsFit

\* A request begins with what it read; a new post takes a new id.
LEMMA ContentBegins ==
  ASSUME ContentInv, UNCHANGED contentVars, NEW r \in Requests, NEW what,
         Begin(r, what), "step" \in DOMAIN what,
         ContentJobFits(what, posts, asked + 1),
         NewPost(what) => what.id = asked + 1,
         OnPost(what) /\ ~what.new => what.id \in DOMAIN posts
  PROVE  ContentInv'
<1>1. /\ JobsOK' /\ \A q \in Requests \ {r} : job'[q] = job[q]
      /\ DOMAIN what \subseteq DOMAIN job'[r]
      /\ \A f \in DOMAIN what : job'[r][f] = what[f]
      /\ asked' = asked + 1
  <2>1. JobsOK
    BY DEF ContentInv
  <2>2. asked' = asked + 1
    BY DEF Begin
  <2>. QED
    BY <2>1, <2>2, Beginning
<1>2. \A q \in Requests \ {r} : ContentJobFits(job'[q], posts', asked')
  <2>. SUFFICES ASSUME NEW q \in Requests \ {r}
                PROVE  ContentJobFits(job'[q], posts', asked')
    OBVIOUS
  <2>1. ContentJobFits(job[q], posts, asked)
    BY DEF ContentInv
  <2>2. 1 .. asked \subseteq 1 .. asked'
    BY <1>1 DEF ContentInv
  <2>. QED
    BY <1>1, <2>1, <2>2 DEF ContentJobFits, contentVars
<1>3. /\ job'[r].step = what.step
      /\ \A f \in {"id", "new", "publish", "dated"} :
           f \in DOMAIN what => f \in DOMAIN job'[r] /\ job'[r][f] = what[f]
  BY <1>1
<1>4. ContentJobFits(job'[r], posts', asked')
  BY <1>1, <1>3 DEF ContentJobFits, contentVars, OnPost
<1>5. Apart(job')
  <2>1. /\ OnPost(job'[r]) <=> OnPost(what)
        /\ OnPost(what) => job'[r].id = what.id /\ job'[r].new = what.new
    BY <1>3 DEF OnPost, ContentJobFits
  <2>2. \A q \in Requests : OnPost(job[q]) =>
          /\ job[q].id \in 1 .. asked
          /\ NewPost(job[q]) => job[q].id \notin DOMAIN posts
    BY DEF ContentInv, ContentJobFits, NewPost
  <2>3. asked + 1 \notin 1 .. asked
    BY DEF ContentInv
  <2>4. OnPost(what) => what.new \in BOOLEAN
    BY DEF ContentJobFits
  <2>5. ASSUME NEW q \in Requests \ {r}
        PROVE  /\ NewPost(job'[q]) /\ OnPost(job'[r]) => job'[q].id # job'[r].id
               /\ NewPost(job'[r]) /\ OnPost(job'[q]) => job'[q].id # job'[r].id
    BY <1>1, <2>1, <2>2, <2>3, <2>4 DEF NewPost
  <2>6. Apart(job)
    BY DEF ContentInv
  <2>7. \A q, p \in Requests \ {r} :
          q # p /\ NewPost(job'[q]) /\ OnPost(job'[p]) => job'[q].id # job'[p].id
    BY <1>1, <2>6 DEF Apart
  <2>. QED
    BY <2>5, <2>7 DEF Apart
<1>6. PostsFit(posts', asked') /\ asked' \in Nat
  <2>1. asked \in Nat /\ PostsFit(posts, asked) /\ posts' = posts
    BY DEF ContentInv, contentVars
  <2>2. /\ 1 .. asked \subseteq 1 .. asked' /\ 0 .. asked \subseteq 0 .. asked'
        /\ asked' \in Nat
    BY <1>1, <2>1
  <2>. QED
    BY <2>1, <2>2 DEF PostsFit
<1>7. OthersFit'
  BY DEF ContentInv, OthersFit, contentVars
<1>. QED
  BY <1>1, <1>2, <1>4, <1>5, <1>6, <1>7 DEF ContentInv

\* A new post takes the next id.
LEMMA AskCreatePostStep ==
  ASSUME ContentInv, NEW r \in Requests, AskCreatePost(r)
  PROVE  ContentInv'
<1>1. PICK publish \in {"yes", "no"} :
        Begin(r, [step |-> "slug", id |-> asked + 1, slug |-> 1, new |-> TRUE,
                  publish |-> publish, dated |-> Never])
  BY DEF AskCreatePost, now
<1>. DEFINE what == [step |-> "slug", id |-> asked + 1, slug |-> 1, new |-> TRUE,
                     publish |-> publish, dated |-> Never]
<1>2. asked \in Nat /\ asked + 1 \in 1 .. (asked + 1) /\ asked + 1 \notin DOMAIN posts
  BY DEF ContentInv, PostsFit
<1>3. /\ "step" \in DOMAIN what /\ ContentJobFits(what, posts, asked + 1)
      /\ NewPost(what) => what.id = asked + 1
      /\ OnPost(what) /\ ~what.new => what.id \in DOMAIN posts
  BY <1>2 DEF ContentJobFits, NewPost, OnPost
<1>. HIDE DEF what
<1>4. Begin(r, what) /\ UNCHANGED contentVars
  BY <1>1 DEF what, AskCreatePost
<1>. QED
  BY <1>3, <1>4, ContentBegins

\* An update begins with the date the post has.
LEMMA AskUpdatePostStep ==
  ASSUME ContentInv, NEW r \in Requests, AskUpdatePost(r)
  PROVE  ContentInv'
<1>1. PICK p \in DOMAIN posts, publish \in {"yes", "no", "kept"},
           retitled \in BOOLEAN :
        Begin(r, [step |-> IF retitled THEN "slug" ELSE "post", id |-> p,
                  slug |-> IF retitled THEN 1 ELSE posts[p].slug,
                  new |-> FALSE, retitled |-> retitled,
                  publish |-> publish, dated |-> posts[p].publishedAt])
  BY DEF AskUpdatePost
<1>. DEFINE what == [step |-> IF retitled THEN "slug" ELSE "post", id |-> p,
                     slug |-> IF retitled THEN 1 ELSE posts[p].slug,
                     new |-> FALSE, retitled |-> retitled,
                     publish |-> publish, dated |-> posts[p].publishedAt]
<1>2. asked \in Nat /\ p \in 1 .. (asked + 1)
  BY DEF ContentInv, PostsFit
<1>3. what["step"] \in {"slug", "post"} /\ what["id"] = p /\ what["new"] = FALSE
      /\ what["publish"] = publish /\ what["dated"] = posts[p].publishedAt
      /\ DOMAIN what = {"step", "id", "slug", "new", "retitled", "publish", "dated"}
  OBVIOUS
<1>. HIDE DEF what
<1>4. /\ "step" \in DOMAIN what /\ ContentJobFits(what, posts, asked + 1)
      /\ NewPost(what) => what.id = asked + 1
      /\ OnPost(what) /\ ~what.new => what.id \in DOMAIN posts
  BY <1>2, <1>3 DEF ContentJobFits, NewPost, OnPost
<1>5. Begin(r, what) /\ UNCHANGED contentVars
  BY <1>1 DEF what, AskUpdatePost
<1>. QED
  BY <1>4, <1>5, ContentBegins

\* What is about to be deleted or wished for is none that is being written.
LEMMA AskOtherStep ==
  ASSUME ContentInv, NEW r \in Requests, AskRemovePost(r) \/ AskWish(r)
  PROVE  ContentInv'
<1>1. PICK what : /\ Begin(r, what) /\ DOMAIN what = {"step", "id"}
                  /\ \/ what["step"] = "delete"
                     \/ what["step"] = "wish" /\ what["id"] \in Wishables
  <2>1. CASE AskRemovePost(r)
    <3>1. PICK p : Begin(r, [step |-> "delete", id |-> p])
      BY <2>1 DEF AskRemovePost
    <3>. QED
      BY <3>1
  <2>2. CASE AskWish(r)
    <3>1. PICK p \in Wishables : Begin(r, [step |-> "wish", id |-> p])
      BY <2>2 DEF AskWish, ContentInv, OthersFit
    <3>. QED
      BY <3>1
  <2>. QED
    BY <2>1, <2>2
<1>2. /\ "step" \in DOMAIN what /\ ContentJobFits(what, posts, asked + 1)
      /\ NewPost(what) => what.id = asked + 1
      /\ OnPost(what) /\ ~what.new => what.id \in DOMAIN posts
  BY <1>1 DEF ContentJobFits, NewPost, OnPost
<1>3. UNCHANGED contentVars
  BY DEF AskRemovePost, AskWish
<1>. QED
  BY <1>1, <1>2, <1>3, ContentBegins

\* A turn of the loop changes what slug is tried, or that it is free.
LEMMA EnsureUniqueSlugStep ==
  ASSUME ContentInv, NEW r \in Requests, ensureUniqueSlug(r)
  PROVE  ContentInv'
<1>1. PICK what :
        /\ Proceed(r, what, FALSE)
        /\ \/ DOMAIN what = {"slug"}
           \/ DOMAIN what = {"step"} /\ what["step"] = "post"
  <2>1. \/ Proceed(r, [slug |-> job[r].slug + 1], FALSE)
        \/ Proceed(r, [step |-> "post"], FALSE)
    BY DEF ensureUniqueSlug, Continue
  <2>2. CASE Proceed(r, [slug |-> job[r].slug + 1], FALSE)
    <3>. PICK what : what = [slug |-> job[r].slug + 1]
      OBVIOUS
    <3>1. Proceed(r, what, FALSE) /\ DOMAIN what = {"slug"}
      BY <2>2
    <3>. QED
      BY <3>1, Zenon
  <2>3. CASE Proceed(r, [step |-> "post"], FALSE)
    <3>. PICK what : what = [step |-> "post"]
      OBVIOUS
    <3>1. Proceed(r, what, FALSE) /\ DOMAIN what = {"step"} /\ what["step"] = "post"
      BY <2>3
    <3>. QED
      BY <3>1, Zenon
  <2>. QED
    BY <2>1, <2>2, <2>3
<1>2. JobsOK /\ FALSE \in BOOLEAN /\ job[r].step = "slug"
  BY DEF ContentInv, ensureUniqueSlug, At
<1>3. /\ JobsOK' /\ \A q \in Requests \ {r} : job'[q] = job[q]
      /\ DOMAIN job'[r] = DOMAIN what \cup DOMAIN job[r]
      /\ \A f \in DOMAIN what : job'[r][f] = what[f]
      /\ \A f \in DOMAIN job[r] \ DOMAIN what : job'[r][f] = job[r][f]
  BY <1>1, <1>2, Proceeding
<1>4. "step" \in DOMAIN job[r]
  BY <1>2 DEF JobsOK
<1>5. /\ OnPost(job[r]) /\ OnPost(job'[r]) /\ job'[r].step # "wish"
      /\ \A f \in {"id", "new", "publish", "dated"} :
           f \in DOMAIN job[r] => f \in DOMAIN job'[r] /\ job'[r][f] = job[r][f]
  BY <1>1, <1>2, <1>3, <1>4 DEF OnPost
<1>6. UNCHANGED <<posts, asked, shown, settings, onSale, wishlist>>
  BY DEF ensureUniqueSlug, Continue, Proceed, contentVars
<1>7. \A q \in Requests : ContentJobFits(job'[q], posts', asked')
  <2>1. \A q \in Requests : ContentJobFits(job[q], posts, asked)
    BY DEF ContentInv
  <2>2. ContentJobFits(job'[r], posts, asked)
    BY <1>5, <2>1 DEF ContentJobFits
  <2>. QED
    BY <1>3, <1>6, <2>1, <2>2
<1>8. Apart(job')
  <2>1. job'[r].id = job[r].id /\ job'[r].new = job[r].new
    BY <1>5 DEF ContentInv, ContentJobFits
  <2>2. \A q \in Requests : /\ NewPost(job'[q]) => NewPost(job[q])
                            /\ OnPost(job'[q]) => OnPost(job[q])
                            /\ OnPost(job'[q]) => job'[q].id = job[q].id
    BY <1>3, <1>5, <2>1 DEF NewPost
  <2>. QED
    BY <2>2 DEF ContentInv, Apart, NewPost
<1>. QED
  BY <1>3, <1>6, <1>7, <1>8 DEF ContentInv, OthersFit

\* A request that answers leaves the others to theirs.
LEMMA ContentEnds ==
  ASSUME ContentInv, NEW r \in Requests, End(r)
  PROVE  /\ JobsOK' /\ asked' = asked
         /\ \A q \in Requests \ {r} : job'[q] = job[q]
         /\ job'[r].step = "idle"
         /\ Apart(job')
<1>1. JobsOK /\ FALSE \in BOOLEAN /\ Settle(r, FALSE) /\ asked' = asked
  BY DEF ContentInv, End, Settle
<1>2. /\ JobsOK' /\ \A q \in Requests \ {r} : job'[q] = job[q]
      /\ job'[r].step = "idle"
  BY <1>1, Settling
<1>3. Apart(job')
  BY <1>2 DEF ContentInv, Apart, NewPost, OnPost
<1>. QED
  BY <1>1, <1>2, <1>3

\* A post is written with a slug of its own, and with a date if it is published.
LEMMA PostWritten ==
  ASSUME ContentInv, NEW r \in Requests, End(r), NEW id \in 1 .. asked, NEW row,
         posts' = Saved(posts, id, row),
         UNCHANGED <<shown, settings, onSale, wishlist>>,
         ~slugTaken(row.slug, id),
         row.published \in BOOLEAN, row.publishedAt \in 0 .. asked,
         row.published => row.publishedAt # Never,
         \A q \in Requests \ {r} : NewPost(job[q]) => job[q].id # id,
         \A q \in Requests \ {r} :
           OnPost(job[q]) /\ ~job[q].new /\ job[q].id = id
             /\ job[q].dated # Never => row.publishedAt # Never
  PROVE  ContentInv'
<1>1. /\ DOMAIN posts' = DOMAIN posts \cup {id} /\ posts'[id] = row
      /\ \A i \in DOMAIN posts \ {id} : posts'[i] = posts[i]
  BY DEF Saved
<1>2. /\ JobsOK' /\ asked' = asked
      /\ \A q \in Requests \ {r} : job'[q] = job[q]
      /\ job'[r].step = "idle"
      /\ Apart(job')
  BY ContentEnds
<1>3. PostsFit(posts, asked) /\ asked \in Nat
  BY DEF ContentInv
<1>4. \A p \in DOMAIN posts \ {id} : posts[p].slug # row.slug
  BY DEF slugTaken
<1>5. PostsFit(posts', asked')
  BY <1>1, <1>2, <1>3, <1>4 DEF PostsFit
<1>6. ContentJobFits(job'[r], posts', asked')
  BY <1>2 DEF ContentJobFits, OnPost
<1>7. ASSUME NEW q \in Requests \ {r} PROVE ContentJobFits(job'[q], posts', asked')
  <2>1. ContentJobFits(job[q], posts, asked) /\ job'[q] = job[q]
    BY <1>2 DEF ContentInv
  <2>. QED
    BY <1>1, <1>2, <2>1 DEF ContentJobFits, NewPost
<1>8. OthersFit'
  BY DEF ContentInv, OthersFit
<1>. QED
  BY <1>2, <1>3, <1>5, <1>6, <1>7, <1>8 DEF ContentInv

\* A post that is created published is dated.
LEMMA CreatePostStep ==
  ASSUME ContentInv, NEW r \in Requests, CreatePost(r)
  PROVE  ContentInv'
<1>. PICK j : j = job[r]
  OBVIOUS
<1>. PICK published \in BOOLEAN : published = (j.publish = "yes")
  OBVIOUS
<1>. PICK date : date = IF firstPublished(j) THEN asked ELSE Never
  OBVIOUS
<1>. PICK row : row = [slug |-> j.slug, published |-> published,
                       publishedAt |-> date]
  OBVIOUS
<1>1. /\ j.step = "post" /\ j.new /\ ~slugTaken(j.slug, j.id)
      /\ posts' = Saved(posts, j.id, row)
      /\ End(r) /\ UNCHANGED <<shown, settings, onSale, wishlist>>
  BY DEF CreatePost, At, now
<1>2. row.slug = j.slug /\ row.published = published /\ row.publishedAt = date
  OBVIOUS
<1>3. ContentJobFits(j, posts, asked) /\ OnPost(j) /\ asked \in Nat
  BY <1>1 DEF ContentInv, OnPost
<1>4. /\ j.id \in 1 .. asked /\ asked # 0
      /\ published => date = asked
      /\ date \in 0 .. asked
  <2>1. j.id \in 1 .. asked /\ j.dated = Never
    BY <1>1, <1>3 DEF ContentJobFits
  <2>2. published <=> firstPublished(j)
    BY <2>1 DEF firstPublished
  <2>3. (published => date = asked) /\ (~published => date = 0)
    BY <2>2 DEF Never
  <2>. QED
    BY <1>3, <2>1, <2>3
<1>5. \A q \in Requests \ {r} : OnPost(job[q]) => job[q].id # j.id
  BY <1>1, <1>3 DEF ContentInv, Apart, NewPost
<1>6. /\ ~slugTaken(row.slug, j.id)
      /\ row.published \in BOOLEAN /\ row.publishedAt \in 0 .. asked
      /\ row.published => row.publishedAt # Never
      /\ \A q \in Requests \ {r} : NewPost(job[q]) => job[q].id # j.id
      /\ \A q \in Requests \ {r} :
           OnPost(job[q]) /\ ~job[q].new /\ job[q].id = j.id
             /\ job[q].dated # Never => row.publishedAt # Never
  BY <1>1, <1>2, <1>4, <1>5 DEF Never, NewPost
<1>. QED
  BY ONLY ContentInv, r \in Requests, <1>1, <1>4, <1>6, PostWritten, SMTT(60)

\* An update dates a post the first time it is published, and no date is lost.
LEMMA UpdatePostStep ==
  ASSUME ContentInv, NEW r \in Requests, UpdatePost(r)
  PROVE  ContentInv'
<1>. PICK j : j = job[r]
  OBVIOUS
<1>. PICK post : post = posts[j.id]
  OBVIOUS
<1>. PICK slug : slug = IF j.retitled THEN j.slug ELSE post.slug
  OBVIOUS
<1>. PICK published : published = IF j.publish = "kept" THEN post.published
                                  ELSE j.publish = "yes"
  OBVIOUS
<1>. PICK date : date = IF firstPublished(j) THEN asked ELSE post.publishedAt
  OBVIOUS
<1>. PICK row : row = [slug |-> slug, published |-> published,
                       publishedAt |-> date]
  OBVIOUS
<1>1. /\ j.step = "post" /\ ~j.new /\ j.id \in DOMAIN posts
      /\ ~slugTaken(slug, j.id)
      /\ posts' = Saved(posts, j.id, row)
      /\ End(r) /\ UNCHANGED <<shown, settings, onSale, wishlist>>
  BY DEF UpdatePost, At, now
<1>2. row.slug = slug /\ row.published = published /\ row.publishedAt = date
  OBVIOUS
<1>3. /\ ContentJobFits(j, posts, asked) /\ OnPost(j)
      /\ asked \in Nat /\ PostsFit(posts, asked)
  BY <1>1 DEF ContentInv, OnPost
<1>4. /\ j.id \in 1 .. asked /\ asked # 0
      /\ j.dated # Never => post.publishedAt # Never
      /\ post.publishedAt \in 0 .. asked /\ post.published \in BOOLEAN
      /\ post.published => post.publishedAt # Never
  BY <1>1, <1>3 DEF ContentJobFits, PostsFit
<1>5. published \in BOOLEAN /\ (published => j.publish = "yes" \/ post.published)
  BY <1>4
<1>6. date \in 0 .. asked /\ (post.publishedAt # Never => date # Never)
      /\ (published => date # Never)
  BY <1>3, <1>4, <1>5 DEF firstPublished, Never
<1>7. \A q \in Requests \ {r} : NewPost(job[q]) => job[q].id # j.id
  BY <1>3 DEF ContentInv, Apart
<1>8. \A q \in Requests \ {r} :
        OnPost(job[q]) /\ ~job[q].new /\ job[q].id = j.id
          /\ job[q].dated # Never => date # Never
  BY <1>1, <1>6 DEF ContentInv, ContentJobFits
<1>9. /\ row.published \in BOOLEAN /\ row.publishedAt \in 0 .. asked
      /\ row.published => row.publishedAt # Never
      /\ \A q \in Requests \ {r} :
           OnPost(job[q]) /\ ~job[q].new /\ job[q].id = j.id
             /\ job[q].dated # Never => row.publishedAt # Never
  BY <1>2, <1>5, <1>6, <1>8
<1>. QED
  BY <1>1, <1>2, <1>4, <1>7, <1>9, PostWritten

\* What is deleted was not being created.
LEMMA ContentEndsStep ==
  ASSUME ContentInv, NEW r \in Requests,
         DeletePost(r) \/ AddWish(r) \/ AbandonContent(r)
  PROVE  ContentInv'
<1>1. End(r)
  BY DEF DeletePost, AddWish, AbandonContent, Interrupt
<1>2. /\ JobsOK' /\ asked' = asked
      /\ \A q \in Requests \ {r} : job'[q] = job[q]
      /\ job'[r].step = "idle"
      /\ Apart(job')
  BY <1>1, ContentEnds
<1>3. /\ DOMAIN posts' \subseteq DOMAIN posts
      /\ \A i \in DOMAIN posts' : posts'[i] = posts[i]
  BY DEF DeletePost, AddWish, AbandonContent, Removed, contentVars
<1>4. PostsFit(posts', asked')
  BY <1>2, <1>3 DEF ContentInv, PostsFit
<1>5. \A q \in Requests : ContentJobFits(job'[q], posts', asked')
  <2>1. ContentJobFits(job'[r], posts', asked')
    BY <1>2 DEF ContentJobFits, OnPost
  <2>2. ASSUME NEW q \in Requests \ {r} PROVE ContentJobFits(job'[q], posts', asked')
    <3>1. ContentJobFits(job[q], posts, asked) /\ job'[q] = job[q]
      BY <1>2 DEF ContentInv
    <3>. QED
      BY <1>2, <1>3, <3>1 DEF ContentJobFits
  <2>. QED
    BY <2>1, <2>2
<1>6. OthersFit'
  <2>1. wishlist' \subseteq Wishables
    <3>1. ContentJobFits(job[r], posts, asked)
      BY DEF ContentInv
    <3>. QED
      BY <3>1 DEF DeletePost, AddWish, AbandonContent, At, ContentJobFits,
        ContentInv, OthersFit, contentVars
  <2>2. UNCHANGED <<shown, settings, onSale>>
    BY DEF DeletePost, AddWish, AbandonContent, contentVars
  <2>. QED
    BY <2>1, <2>2 DEF ContentInv, OthersFit
<1>. QED
  BY <1>2, <1>4, <1>5, <1>6 DEF ContentInv

\* Every step of the site's content preserves the invariant.
LEMMA ContentNextInv ==
  ContentInv /\ [ContentNext]_<<contentVars, inFlight>> => ContentInv'
<1>. SUFFICES ASSUME ContentInv, [ContentNext]_<<contentVars, inFlight>>
              PROVE  ContentInv'
  OBVIOUS
<1>1. ASSUME UNCHANGED <<posts, inFlight>>, OthersFit' PROVE ContentInv'
  BY <1>1 DEF ContentInv, JobsOK, inFlight
<1>2. CASE UNCHANGED <<contentVars, inFlight>>
  BY <1>1, <1>2 DEF contentVars, ContentInv, OthersFit
<1>3. CASE EditPages \/ EditBanners \/ EditQuestions
  <2>1. PICK kind \in SUBSET (Pages \cup Banners \cup Questions) :
          Save(kind) \/ Remove(kind)
    BY <1>3 DEF EditPages, EditBanners, EditQuestions, SavePage, RemovePage,
      SaveBanner, RemoveBanner, SaveQuestion, RemoveQuestion
  <2>2. UNCHANGED <<posts, inFlight, settings, onSale, wishlist>>
    BY <2>1 DEF Save, Remove
  <2>3. DOMAIN shown' \subseteq DOMAIN shown \cup kind
    BY <2>1 DEF Save, Remove, Saved, Removed
  <2>4. OthersFit'
    BY <2>2, <2>3 DEF ContentInv, OthersFit
  <2>. QED
    BY <1>1, <2>2, <2>4
<1>4. CASE SaveSetting \/ Withdraw \/ RemoveWish
  BY <1>1, <1>4 DEF SaveSetting, Withdraw, RemoveWish, ContentInv, OthersFit
<1>. QED
  BY <1>2, <1>3, <1>4, AskCreatePostStep, AskUpdatePostStep, AskOtherStep,
     EnsureUniqueSlugStep, CreatePostStep, UpdatePostStep, ContentEndsStep
     DEF ContentNext, Blogging, Wishing

\* A slug leads to one post, and what visitors find is dated.
THEOREM PostsAreFound == ContentSpec => []ContentTypeOK
BY ContentInvTypes, ContentInitInv, ContentNextInv, PTL DEF ContentSpec

(***************************************************************************)
(* The services together.                                                  *)
(***************************************************************************)

\* Where no service is followed there are no posts.
NoPosts == ContentTypeOK /\ DOMAIN posts = {}

\* The service that is followed keeps what makes its types inductive, and the
\* others keep their types.
ServicesInv ==
  /\ focus \in Services
  /\ IF focus = "sheets" THEN SheetsInv ELSE SheetsTypeOK
  /\ IF focus = "signIn" THEN SignInFits ELSE SignInTypeOK
  /\ IF focus = "reviews" THEN ReviewsFit ELSE ReviewsTypeOK
  /\ IF focus = "tickets" THEN TicketInv ELSE TicketsTypeOK
  /\ IF focus = "addresses" THEN AddressesFit ELSE AddressesTypeOK
  /\ IF focus = "catalogue" THEN CatalogueFits ELSE CatalogueTypeOK
  /\ IF focus = "reports" THEN ReportsFit ELSE ReportsTypeOK
  /\ IF focus = "access" THEN AccessFits ELSE AccessTypeOK
  /\ MediaTypeOK
  /\ IF focus = "content" THEN ContentInv ELSE NoPosts

\* Each service has its types where its invariant holds.
LEMMA FollowedTypes ==
  /\ SheetsInv => SheetsTypeOK
  /\ SignInFits => SignInTypeOK
  /\ ReviewsFit => ReviewsTypeOK
  /\ TicketInv => TicketsTypeOK
  /\ AddressesFit => AddressesTypeOK
  /\ CatalogueFits => CatalogueTypeOK
  /\ ReportsFit => ReportsTypeOK
  /\ AccessFits => AccessTypeOK
  /\ ContentInv => ContentTypeOK
<1>1. SheetsInv => SheetsTypeOK
  BY DEF SheetsInv, SheetsFit, SheetsTypeOK
<1>. QED
  BY <1>1, SignInFitsTypes, ReviewsFitTypes, TicketsFitTypes, AddressesFitTypes,
     CatalogueFitsTypes, ReportsFitTypes, AccessFitsTypes, ContentInvTypes

\* Types are about the rows of their own service only.
LEMMA TypesOfRows ==
  /\ SheetsTypeOK /\ UNCHANGED sheetVars => SheetsTypeOK'
  /\ SignInTypeOK /\ UNCHANGED signInVars => SignInTypeOK'
  /\ ReviewsTypeOK /\ UNCHANGED reviewVars => ReviewsTypeOK'
  /\ TicketsTypeOK /\ UNCHANGED ticketVars => TicketsTypeOK'
  /\ AddressesTypeOK /\ UNCHANGED addressVars => AddressesTypeOK'
  /\ CatalogueTypeOK /\ UNCHANGED catalogueVars => CatalogueTypeOK'
  /\ ReportsTypeOK /\ UNCHANGED reportVars => ReportsTypeOK'
  /\ AccessTypeOK /\ UNCHANGED accessVars => AccessTypeOK'
  /\ MediaTypeOK /\ UNCHANGED mediaVars => MediaTypeOK'
  /\ NoPosts /\ UNCHANGED contentVars => NoPosts'
<1>1. SheetsTypeOK /\ UNCHANGED sheetVars => SheetsTypeOK'
  BY DEF SheetsTypeOK, sheetVars
<1>2. SignInTypeOK /\ UNCHANGED signInVars => SignInTypeOK'
  BY DEF SignInTypeOK, signInVars
<1>3. ReviewsTypeOK /\ UNCHANGED reviewVars => ReviewsTypeOK'
  BY DEF ReviewsTypeOK, reviewVars
<1>4. TicketsTypeOK /\ UNCHANGED ticketVars => TicketsTypeOK'
  BY DEF TicketsTypeOK, ticketVars
<1>5. AddressesTypeOK /\ UNCHANGED addressVars => AddressesTypeOK'
  BY DEF AddressesTypeOK, addressVars
<1>6. CatalogueTypeOK /\ UNCHANGED catalogueVars => CatalogueTypeOK'
  BY DEF CatalogueTypeOK, catalogueVars
<1>7. ReportsTypeOK /\ UNCHANGED reportVars => ReportsTypeOK'
  BY DEF ReportsTypeOK, reportVars
<1>8. AccessTypeOK /\ UNCHANGED accessVars => AccessTypeOK'
  BY DEF AccessTypeOK, Named, accessVars
<1>9. MediaTypeOK /\ UNCHANGED mediaVars => MediaTypeOK'
  BY DEF MediaTypeOK, mediaVars
<1>10. NoPosts /\ UNCHANGED contentVars => NoPosts'
  BY DEF NoPosts, ContentTypeOK, publicPosts, contentVars
<1>. QED
  BY <1>1, <1>2, <1>3, <1>4, <1>5, <1>6, <1>7, <1>8, <1>9, <1>10

\* A step is one of the service that is followed and leaves the others alone.
LEMMA FollowsOne ==
  ASSUME [Next]_vars
  PROVE  /\ focus' = focus
         /\ IF focus = "sheets" THEN [SheetsNext]_<<sheetVars, inFlight>>
            ELSE UNCHANGED sheetVars
         /\ IF focus = "signIn" THEN [SignInNext]_<<signInVars, inFlight>>
            ELSE UNCHANGED signInVars
         /\ IF focus = "reviews" THEN [ReviewsNext]_<<reviewVars, inFlight>>
            ELSE UNCHANGED reviewVars
         /\ IF focus = "tickets" THEN [TicketsNext]_<<ticketVars, inFlight>>
            ELSE UNCHANGED ticketVars
         /\ IF focus = "addresses" THEN [AddressesNext]_<<addressVars, inFlight>>
            ELSE UNCHANGED addressVars
         /\ IF focus = "catalogue" THEN [CatalogueNext]_<<catalogueVars, inFlight>>
            ELSE UNCHANGED catalogueVars
         /\ IF focus = "reports" THEN [ReportsNext]_<<reportVars, inFlight>>
            ELSE UNCHANGED reportVars
         /\ IF focus = "access" THEN [AccessNext]_<<accessVars, inFlight>>
            ELSE UNCHANGED accessVars
         /\ IF focus = "media" THEN [MediaNext]_<<mediaVars, inFlight>>
            ELSE UNCHANGED mediaVars
         /\ IF focus = "content" THEN [ContentNext]_<<contentVars, inFlight>>
            ELSE UNCHANGED contentVars
<1>1. CASE UNCHANGED vars
  BY <1>1 DEF vars
<1>2. CASE Sheets
  BY <1>2 DEF Sheets
<1>3. CASE Accounts
  BY <1>3 DEF Accounts
<1>4. CASE Reviewing
  BY <1>4 DEF Reviewing
<1>5. CASE Support
  BY <1>5 DEF Support
<1>6. CASE AddressBook
  BY <1>6 DEF AddressBook
<1>7. CASE Catalog
  BY <1>7 DEF Catalog
<1>8. CASE Reporting
  BY <1>8 DEF Reporting
<1>9. CASE Managing
  BY <1>9 DEF Managing
<1>10. CASE Library
  BY <1>10 DEF Library
<1>11. CASE Publishing
  BY <1>11 DEF Publishing
<1>. QED
  BY <1>1, <1>2, <1>3, <1>4, <1>5, <1>6, <1>7, <1>8, <1>9, <1>10, <1>11 DEF Next

\* Every service starts with its invariant.
LEMMA ServicesInitInv == InitOnce => ServicesInv
<1>. SUFFICES ASSUME Init PROVE ServicesInv
  BY DEF InitOnce
<1>1. /\ SheetsInit /\ SignInInit /\ ReviewsInit /\ TicketsInit
      /\ AddressesInit /\ CatalogueInit /\ ReportsInit
      /\ AccessInit /\ MediaInit /\ ContentInit
      /\ focus \in Services
  BY DEF Init
<1>2. /\ SheetsInv /\ SignInFits /\ ReviewsFit /\ TicketInv
      /\ AddressesFit /\ CatalogueFits /\ ReportsFit
      /\ AccessFits /\ MediaTypeOK /\ ContentInv
  BY <1>1, SheetsInitInv, SignInInitFits, ReviewsInitFit, TicketsInitInv,
     AddressesInitFit, CatalogueInitFits, ReportsInitFit, AccessInitFits,
     MediaInitTypes, ContentInitInv
<1>3. DOMAIN posts = {}
  BY <1>1 DEF ContentInit
<1>. QED
  BY <1>1, <1>2, <1>3, FollowedTypes DEF ServicesInv, NoPosts

\* A step of the service that is followed keeps its invariant.
LEMMA ServicesNextInv ==
  ASSUME ServicesInv, [Next]_vars
  PROVE  ServicesInv'
<1>. focus' = focus
  BY FollowsOne
<1>1. IF focus = "sheets" THEN SheetsInv' ELSE SheetsTypeOK'
  <2>1. CASE focus = "sheets"
    <3>1. SheetsInv /\ [SheetsNext]_<<sheetVars, inFlight>>
      BY <2>1, FollowsOne DEF ServicesInv
    <3>. QED
      BY <2>1, <3>1, SheetsNextInv
  <2>2. CASE focus # "sheets"
    <3>1. SheetsTypeOK /\ UNCHANGED sheetVars
      BY <2>2, FollowsOne DEF ServicesInv
    <3>. QED
      BY <2>2, <3>1, TypesOfRows
  <2>. QED
    BY <2>1, <2>2
<1>2. IF focus = "signIn" THEN SignInFits' ELSE SignInTypeOK'
  <2>1. CASE focus = "signIn"
    <3>1. SignInFits /\ [SignInNext]_<<signInVars, inFlight>>
      BY <2>1, FollowsOne DEF ServicesInv
    <3>. QED
      BY <2>1, <3>1, SignInNextFits
  <2>2. CASE focus # "signIn"
    <3>1. SignInTypeOK /\ UNCHANGED signInVars
      BY <2>2, FollowsOne DEF ServicesInv
    <3>. QED
      BY <2>2, <3>1, TypesOfRows
  <2>. QED
    BY <2>1, <2>2
<1>3. IF focus = "reviews" THEN ReviewsFit' ELSE ReviewsTypeOK'
  <2>1. CASE focus = "reviews"
    <3>1. ReviewsFit /\ [ReviewsNext]_<<reviewVars, inFlight>>
      BY <2>1, FollowsOne DEF ServicesInv
    <3>. QED
      BY <2>1, <3>1, ReviewsNextFit
  <2>2. CASE focus # "reviews"
    <3>1. ReviewsTypeOK /\ UNCHANGED reviewVars
      BY <2>2, FollowsOne DEF ServicesInv
    <3>. QED
      BY <2>2, <3>1, TypesOfRows
  <2>. QED
    BY <2>1, <2>2
<1>4. IF focus = "tickets" THEN TicketInv' ELSE TicketsTypeOK'
  <2>1. CASE focus = "tickets"
    <3>1. TicketInv /\ [TicketsNext]_<<ticketVars, inFlight>>
      BY <2>1, FollowsOne DEF ServicesInv
    <3>. QED
      BY <2>1, <3>1, TicketsNextInv
  <2>2. CASE focus # "tickets"
    <3>1. TicketsTypeOK /\ UNCHANGED ticketVars
      BY <2>2, FollowsOne DEF ServicesInv
    <3>. QED
      BY <2>2, <3>1, TypesOfRows
  <2>. QED
    BY <2>1, <2>2
<1>5. IF focus = "addresses" THEN AddressesFit' ELSE AddressesTypeOK'
  <2>1. CASE focus = "addresses"
    <3>1. AddressesFit /\ [AddressesNext]_<<addressVars, inFlight>>
      BY <2>1, FollowsOne DEF ServicesInv
    <3>. QED
      BY <2>1, <3>1, AddressesNextFit
  <2>2. CASE focus # "addresses"
    <3>1. AddressesTypeOK /\ UNCHANGED addressVars
      BY <2>2, FollowsOne DEF ServicesInv
    <3>. QED
      BY <2>2, <3>1, TypesOfRows
  <2>. QED
    BY <2>1, <2>2
<1>6. IF focus = "catalogue" THEN CatalogueFits' ELSE CatalogueTypeOK'
  <2>1. CASE focus = "catalogue"
    <3>1. CatalogueFits /\ [CatalogueNext]_<<catalogueVars, inFlight>>
      BY <2>1, FollowsOne DEF ServicesInv
    <3>. QED
      BY <2>1, <3>1, CatalogueNextFits
  <2>2. CASE focus # "catalogue"
    <3>1. CatalogueTypeOK /\ UNCHANGED catalogueVars
      BY <2>2, FollowsOne DEF ServicesInv
    <3>. QED
      BY <2>2, <3>1, TypesOfRows
  <2>. QED
    BY <2>1, <2>2
<1>7. IF focus = "reports" THEN ReportsFit' ELSE ReportsTypeOK'
  <2>1. CASE focus = "reports"
    <3>1. ReportsFit /\ [ReportsNext]_<<reportVars, inFlight>>
      BY <2>1, FollowsOne DEF ServicesInv
    <3>. QED
      BY <2>1, <3>1, ReportsNextFit
  <2>2. CASE focus # "reports"
    <3>1. ReportsTypeOK /\ UNCHANGED reportVars
      BY <2>2, FollowsOne DEF ServicesInv
    <3>. QED
      BY <2>2, <3>1, TypesOfRows
  <2>. QED
    BY <2>1, <2>2
<1>8. IF focus = "access" THEN AccessFits' ELSE AccessTypeOK'
  <2>1. CASE focus = "access"
    <3>1. AccessFits /\ [AccessNext]_<<accessVars, inFlight>>
      BY <2>1, FollowsOne DEF ServicesInv
    <3>. QED
      BY <2>1, <3>1, AccessNextFits
  <2>2. CASE focus # "access"
    <3>1. AccessTypeOK /\ UNCHANGED accessVars
      BY <2>2, FollowsOne DEF ServicesInv
    <3>. QED
      BY <2>2, <3>1, TypesOfRows
  <2>. QED
    BY <2>1, <2>2
<1>9. MediaTypeOK'
  <2>1. CASE focus = "media"
    <3>1. MediaTypeOK /\ [MediaNext]_<<mediaVars, inFlight>>
      BY <2>1, FollowsOne DEF ServicesInv
    <3>. QED
      BY <2>1, <3>1, MediaNextTypes
  <2>2. CASE focus # "media"
    <3>1. MediaTypeOK /\ UNCHANGED mediaVars
      BY <2>2, FollowsOne DEF ServicesInv
    <3>. QED
      BY <2>2, <3>1, TypesOfRows
  <2>. QED
    BY <2>1, <2>2
<1>10. IF focus = "content" THEN ContentInv' ELSE NoPosts'
  <2>1. CASE focus = "content"
    <3>1. ContentInv /\ [ContentNext]_<<contentVars, inFlight>>
      BY <2>1, FollowsOne DEF ServicesInv
    <3>. QED
      BY <2>1, <3>1, ContentNextInv
  <2>2. CASE focus # "content"
    <3>1. NoPosts /\ UNCHANGED contentVars
      BY <2>2, FollowsOne DEF ServicesInv
    <3>. QED
      BY <2>2, <3>1, TypesOfRows
  <2>. QED
    BY <2>1, <2>2
<1>. QED
  BY <1>1, <1>2, <1>3, <1>4, <1>5, <1>6, <1>7, <1>8, <1>9, <1>10 DEF ServicesInv

\* Every service keeps its rows in their types, with unique ids, versions, role
\* names and slugs, no reference to a row that is gone and no published post
\* without a date, whatever its requests do and wherever they stop.
THEOREM ServicesKeepTheirTypes == Spec => []TypeOK
<1>1. ServicesInv => TypeOK
  BY FollowedTypes DEF ServicesInv, NoPosts, TypeOK
<1>2. ServicesInv /\ [Next]_vars => ServicesInv'
  BY ServicesNextInv
<1>. QED
  BY <1>1, <1>2, ServicesInitInv, PTL DEF Spec
=================================================================================
