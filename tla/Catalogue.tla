------------------------------- MODULE Catalogue -------------------------------
(***************************************************************************)
(* What may be deleted from the catalogue. A category goes only when no    *)
(* product on sale or draft is in it, an ingredient only when nothing is   *)
(* made with it, a recipe only when it is hidden, and a deleted product    *)
(* comes back only to a category. Each of these is looked at in one query  *)
(* and acted on in another; the database then clears or cascades whatever  *)
(* still refers to what went.                                              *)
(***************************************************************************)
EXTENDS Requests

CONSTANTS Categories, Ingredients, Products, Recipes, NoCategory

ASSUME NoCategoryAssumption == NoCategory \notin Categories

VARIABLES
  categories,   \* the categories there are
  ingredients,  \* the ingredients there are
  products,     \* the products: category, ingredients, not deleted
  recipes       \* the recipes: ingredients, shown

catalogueVars == <<categories, ingredients, products, recipes>>

Links(rows, i) == {x \in DOMAIN rows : i \in rows[x].ingredients}

LiveIn(c) ==
  {p \in DOMAIN products : products[p].live /\ products[p].category = c}

UsesOf(i) == Links(products, i) \cup Links(recipes, i)

\* onDelete: Cascade of the rows that link an ingredient.
Stripped(rows, i) ==
  [x \in DOMAIN rows |-> [rows[x] EXCEPT !.ingredients = @ \ {i}]]

CatalogueInit ==
  /\ RequestsInit
  /\ categories = Categories /\ ingredients = Ingredients
  /\ products = <<>> /\ recipes = <<>>

-----------------------------------------------------------------------------
(* Single writes: a new row or an edited one must refer to what is there.  *)

SaveProduct ==
  \E p \in Products, c \in categories, made \in SUBSET ingredients :
    /\ products' = Saved(products, p,
                         [category |-> c, ingredients |-> made,
                          live |-> p \in DOMAIN products => products[p].live])
    /\ UNCHANGED <<categories, ingredients, recipes, inFlight>>

RemoveProduct ==
  \E p \in DOMAIN products :
    /\ products' = [products EXCEPT ![p].live = FALSE]
    /\ UNCHANGED <<categories, ingredients, recipes, inFlight>>

SaveRecipe ==
  \E x \in Recipes, made \in SUBSET ingredients, shown \in BOOLEAN :
    /\ recipes' = Saved(recipes, x, [ingredients |-> made, shown |-> shown])
    /\ UNCHANGED <<categories, ingredients, products, inFlight>>

-----------------------------------------------------------------------------
(* Read, then write. `was` is what was seen, to tell whether it still is.  *)

AskRestore(r) ==
  \E p \in DOMAIN products :
    /\ products[p].category # NoCategory
    /\ Begin(r, [step |-> "restore", id |-> p,
                 was |-> products[p].category])
    /\ UNCHANGED catalogueVars

WriteRestore(r) ==
  LET p == job[r].id
  IN  /\ At(r, "restore")
      /\ products' = [products EXCEPT ![p].live = TRUE]
      /\ Settle(r, products[p].category # job[r].was)
      /\ UNCHANGED <<categories, ingredients, recipes>>

\* Mistake: the products in the category are not counted.
foundUnused(c) == TRUE

emptyCategory(c) == LiveIn(c) = {}

AskRemoveCategory(r) ==
  \E c \in categories :
    /\ emptyCategory(c)
    /\ Begin(r, [step |-> "category", id |-> c, was |-> LiveIn(c)])
    /\ UNCHANGED catalogueVars

\* onDelete: SetNull.
DeleteCategory(r) ==
  LET c == job[r].id
  IN  /\ At(r, "category") /\ c \in categories
      /\ categories' = categories \ {c}
      /\ products' = [p \in DOMAIN products |->
                        IF products[p].category = c
                        THEN [products[p] EXCEPT !.category = NoCategory]
                        ELSE products[p]]
      /\ Settle(r, LiveIn(c) # job[r].was)
      /\ UNCHANGED <<ingredients, recipes>>

AskRemoveIngredient(r) ==
  \E i \in ingredients :
    /\ UsesOf(i) = {}
    /\ Begin(r, [step |-> "ingredient", id |-> i, was |-> UsesOf(i)])
    /\ UNCHANGED catalogueVars

DeleteIngredient(r) ==
  LET i == job[r].id
  IN  /\ At(r, "ingredient") /\ i \in ingredients
      /\ ingredients' = ingredients \ {i}
      /\ products' = Stripped(products, i)
      /\ recipes' = Stripped(recipes, i)
      /\ Settle(r, UsesOf(i) # job[r].was)
      /\ UNCHANGED categories

AskRemoveRecipe(r) ==
  \E x \in DOMAIN recipes :
    /\ ~recipes[x].shown
    /\ Begin(r, [step |-> "recipe", id |-> x, was |-> recipes[x].shown])
    /\ UNCHANGED catalogueVars

DeleteRecipe(r) ==
  LET x == job[r].id
  IN  /\ At(r, "recipe") /\ x \in DOMAIN recipes
      /\ recipes' = Removed(recipes, x)
      /\ Settle(r, recipes[x].shown # job[r].was)
      /\ UNCHANGED <<categories, ingredients, products>>

AbandonCatalogue(r) == Interrupt(r) /\ UNCHANGED catalogueVars

CatalogueNext ==
  \/ SaveProduct \/ RemoveProduct \/ SaveRecipe
  \/ \E r \in Requests :
       \/ AskRestore(r) \/ WriteRestore(r)
       \/ AskRemoveCategory(r) \/ DeleteCategory(r)
       \/ AskRemoveIngredient(r) \/ DeleteIngredient(r)
       \/ AskRemoveRecipe(r) \/ DeleteRecipe(r)
       \/ AbandonCatalogue(r)

CatalogueSpec == CatalogueInit /\ [][CatalogueNext]_<<catalogueVars, inFlight>>

-----------------------------------------------------------------------------

CatalogueTypeOK ==
  /\ categories \subseteq Categories /\ ingredients \subseteq Ingredients
  /\ DOMAIN products \subseteq Products
  /\ \A p \in DOMAIN products :
       /\ products[p].category \in categories \cup {NoCategory}
       /\ products[p].ingredients \subseteq ingredients
       /\ products[p].live \in BOOLEAN
  /\ DOMAIN recipes \subseteq Recipes
  /\ \A x \in DOMAIN recipes :
       /\ recipes[x].ingredients \subseteq ingredients
       /\ recipes[x].shown \in BOOLEAN

\* A product that is not deleted is in a category, whatever was deleted and
\* restored, and no delete takes from it anything it is made with or takes a
\* recipe that is shown, until a delete or a restore met another change.
CatalogueStaysWhole ==
  [][~overtaken' =>
       /\ \A p \in DOMAIN products' :
            products'[p].live => products'[p].category # NoCategory
       /\ \A i \in ingredients \ ingredients' : UsesOf(i) = {}
       /\ \A x \in DOMAIN recipes \ DOMAIN recipes' : ~recipes[x].shown
    ]_<<catalogueVars, inFlight>>
===============================================================================
