-------------------------------- MODULE Content --------------------------------
(***************************************************************************)
(* What the site shows beside the catalogue: blog posts, pages, banners,   *)
(* questions and settings, and what a customer has wished for. A post is   *)
(* found under a slug that a loop of queries chose; the first time it is   *)
(* published it is dated, and it is deleted only when it is not published. *)
(* The other rows are written in one query each.                           *)
(***************************************************************************)
EXTENDS Requests

CONSTANTS
  Pages, Banners, Questions,  \* ids, and of pages the slugs
  SettingKeys,
  Wishables                   \* products

VARIABLES
  posts,      \* the posts by id: slug, published, publishedAt
  shown,      \* by id, whether each page, banner and question is published
  settings,   \* the settings there are
  onSale,     \* the products that can be bought
  wishlist    \* the products a customer has wished for

contentVars == <<posts, shown, settings, onSale, wishlist>>

Never == 0     \* publishedAt of a post that never was published
now == asked   \* each request comes at a later time, and a new post has it as id

\* All titles here make one slug: the second post of that title gets slug 2.
slugTaken(slug, except) ==
  \E p \in DOMAIN posts \ {except} : posts[p].slug = slug

ContentInit ==
  /\ RequestsInit
  /\ posts = <<>> /\ shown = <<>> /\ settings = {}
  /\ onSale = Wishables /\ wishlist = {}

-----------------------------------------------------------------------------
(* Blog posts. *)

AskCreatePost(r) ==
  \E publish \in {"yes", "no"} :
    /\ Begin(r, [step |-> "slug", id |-> now + 1, slug |-> 1, new |-> TRUE,
                 publish |-> publish, dated |-> Never])
    /\ UNCHANGED contentVars

\* The post is read, and searched a slug for if the title is among the fields.
AskUpdatePost(r) ==
  \E p \in DOMAIN posts, publish \in {"yes", "no", "kept"}, retitled \in BOOLEAN :
    /\ Begin(r, [step |-> IF retitled THEN "slug" ELSE "post", id |-> p,
                 slug |-> IF retitled THEN 1 ELSE posts[p].slug,
                 new |-> FALSE, retitled |-> retitled,
                 publish |-> publish, dated |-> posts[p].publishedAt])
    /\ UNCHANGED contentVars

\* One turn of the loop.
ensureUniqueSlug(r) ==
  /\ At(r, "slug")
  /\ Continue(r, IF slugTaken(job[r].slug, job[r].id)
                 THEN [slug |-> job[r].slug + 1]
                 ELSE [step |-> "post"])
  /\ UNCHANGED contentVars

firstPublished(j) == j.publish = "yes" /\ j.dated = Never

\* The slug is unique in the database: if it was taken since, the insert throws.
CreatePost(r) ==
  LET j == job[r]
  IN  /\ At(r, "post") /\ j.new
      /\ ~slugTaken(j.slug, j.id)
      /\ posts' = Saved(posts, j.id,
                        [slug |-> j.slug, published |-> j.publish = "yes",
                         publishedAt |-> IF firstPublished(j) THEN now ELSE Never])
      /\ End(r)
      /\ UNCHANGED <<shown, settings, onSale, wishlist>>

\* Fields that are not given stay as they are in the row.
UpdatePost(r) ==
  LET j == job[r]
      post == posts[j.id]
      slug == IF j.retitled THEN j.slug ELSE post.slug
  IN  /\ At(r, "post") /\ ~j.new /\ j.id \in DOMAIN posts
      /\ ~slugTaken(slug, j.id)
      /\ posts' = Saved(posts, j.id,
                        [slug |-> slug,
                         published |-> IF j.publish = "kept" THEN post.published
                                       ELSE j.publish = "yes",
                         publishedAt |-> IF firstPublished(j) THEN now
                                         ELSE post.publishedAt])
      /\ End(r)
      /\ UNCHANGED <<shown, settings, onSale, wishlist>>

AskRemovePost(r) ==
  \E p \in DOMAIN posts :
    /\ ~posts[p].published
    /\ Begin(r, [step |-> "delete", id |-> p])
    /\ UNCHANGED contentVars

\* Whether the post is published by now is not looked at again.
DeletePost(r) ==
  /\ At(r, "delete") /\ job[r].id \in DOMAIN posts
  /\ posts' = Removed(posts, job[r].id)
  /\ End(r)
  /\ UNCHANGED <<shown, settings, onSale, wishlist>>

\* What visitors find, the newest date first.
publicPosts == {p \in DOMAIN posts : posts[p].published}

Blogging(r) ==
  \/ AskCreatePost(r) \/ AskUpdatePost(r) \/ ensureUniqueSlug(r)
  \/ CreatePost(r) \/ UpdatePost(r) \/ AskRemovePost(r) \/ DeletePost(r)

-----------------------------------------------------------------------------
(* Pages, banners, questions and settings. *)

Save(kind) ==
  /\ \E id \in kind, publish \in BOOLEAN : shown' = Saved(shown, id, publish)
  /\ UNCHANGED <<posts, settings, onSale, wishlist, inFlight>>

Remove(kind) ==
  /\ \E id \in kind \cap DOMAIN shown : shown' = Removed(shown, id)
  /\ UNCHANGED <<posts, settings, onSale, wishlist, inFlight>>

SavePage == Save(Pages)
RemovePage == Remove(Pages)
SaveBanner == Save(Banners)
RemoveBanner == Remove(Banners)
SaveQuestion == Save(Questions)
RemoveQuestion == Remove(Questions)

EditPages == SavePage \/ RemovePage
EditBanners == SaveBanner \/ RemoveBanner
EditQuestions == SaveQuestion \/ RemoveQuestion

SaveSetting ==
  /\ \E key \in SettingKeys : settings' = settings \cup {key}
  /\ UNCHANGED <<posts, shown, onSale, wishlist, inFlight>>

-----------------------------------------------------------------------------
(* Wishes. *)

AskWish(r) ==
  \E p \in onSale \ wishlist :
    /\ Begin(r, [step |-> "wish", id |-> p])
    /\ UNCHANGED contentVars

\* A product is in a wishlist once: of two clicks at once the second throws.
AddWish(r) ==
  /\ At(r, "wish") /\ job[r].id \notin wishlist
  /\ wishlist' = wishlist \cup {job[r].id}
  /\ End(r)
  /\ UNCHANGED <<posts, shown, settings, onSale>>

RemoveWish ==
  /\ \E p \in wishlist : wishlist' = wishlist \ {p}
  /\ UNCHANGED <<posts, shown, settings, onSale, inFlight>>

Wishing(r) == AskWish(r) \/ AddWish(r) \/ RemoveWish

\* A wish outlives the sale.
Withdraw ==
  /\ \E p \in onSale : onSale' = onSale \ {p}
  /\ UNCHANGED <<posts, shown, settings, wishlist, inFlight>>

-----------------------------------------------------------------------------

AbandonContent(r) == Interrupt(r) /\ UNCHANGED contentVars

ContentNext ==
  \/ \E r \in Requests : Blogging(r) \/ Wishing(r) \/ AbandonContent(r)
  \/ EditPages \/ EditBanners \/ EditQuestions \/ SaveSetting \/ Withdraw

ContentSpec == ContentInit /\ [][ContentNext]_<<contentVars, inFlight>>

-----------------------------------------------------------------------------

\* A slug leads to one post, and each post that visitors find is dated.
ContentTypeOK ==
  /\ DOMAIN posts \subseteq 1..asked
  /\ \A p, q \in DOMAIN posts : posts[p].slug = posts[q].slug => p = q
  /\ \A p \in publicPosts : posts[p].publishedAt \in 1..asked
  /\ DOMAIN shown \subseteq Pages \cup Banners \cup Questions
  /\ settings \subseteq SettingKeys
  /\ onSale \subseteq Wishables /\ wishlist \subseteq Wishables
===============================================================================
