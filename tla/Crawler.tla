------------------------------ MODULE Crawler -------------------------------
(***************************************************************************)
(* AdaptiveCrawler (crates/fabric/src/crawler.rs): the links of a page are *)
(* resolved, filtered, marked as seen and submitted to the fabric.  A URL  *)
(* is the sequence of what stands between its slashes: the scheme "https:",*)
(* nothing, the host, then the segments, the last one empty after a slash. *)
(***************************************************************************)
EXTENDS Naturals, Sequences, FiniteSets, SequencesExt, Functions

CONSTANTS MaxDepth, MaxUrls,       \* CrawlerConfig
          AllowedHosts, FollowExternal, SkippedSegments,
          SubdomainOf,             \* subdomain -> the allowed host it belongs to
          Seeds, Pages,            \* the URLs collected first; bound: what a page may contain
          Workers,                 \* threads that call process_result
          QueueCapacity            \* what the fabric takes

ASSUME CrawlerAssumption ==
    /\ MaxDepth \in Nat /\ MaxUrls \in Nat /\ QueueCapacity \in Nat
    /\ \A page \in Pages : IsFiniteSet(DOMAIN page)

VARIABLES seen,      \* URL and the depth it was first seen at
          submitted, \* the tasks the fabric accepted, in order
          refused,   \* history: URLs whose submission failed since the reset
          collected, \* tasks whose page was processed
          caller,    \* the process_result calls under way
          resets     \* bound: at most one reset

crawlerVars == <<seen, submitted, refused, collected, caller, resets>>

-----------------------------------------------------------------------------
(* resolve_url and extract_domain.                                         *)

(* extract_domain: the host after "https://", if that is how it begins.    *)
HasDomain(url) == Len(url) >= 3 /\ url[1] = "https:" /\ url[2] = ""
Domain(url) == url[3]

(* What remains of the base: up to its last slash, or all of it when that  *)
(* is among the first nine characters.                                     *)
BaseDirectory(base) ==
    IF Len(base) <= 3 \/ (Len(base) = 4 /\ base[3] = "") THEN base ELSE Append(Front(base), "")

(* The text of a reference is put behind it: the first segment joins the   *)
(* last one of the base, which is empty unless the base has no directory.  *)
Glue(base, segments) ==
    Front(base) \o <<Last(base) \o Head(segments)>> \o Tail(segments)

(* Each "../" cuts after the last slash but a final one, be it a slash of  *)
(* the path, one of the two before the host, or the one that is left then. *)
Ascend(dir, n) ==
    FoldLeft(LAMBDA d, k : IF Last(d) # "" THEN Append(Front(d), "")
                           ELSE IF Len(d) >= 3 THEN Append(Front(Front(d)), "") ELSE d,
             dir, [k \in 1..n |-> k])

Localhost == <<"https:", "", "localhost">>
Resolve(base, href) ==
    CASE href.form = "absolute" -> href.path              \* http://, https:// and //host
      [] href.form = "root"     -> (IF HasDomain(base) THEN SubSeq(base, 1, 3) ELSE Localhost) \o href.path
      [] href.form = "fragment" -> base                   \* only a query or a fragment
      [] href.form = "relative" -> Glue(Ascend(BaseDirectory(base), href.ups), href.path)

(* A URL without a host is not held back.                                  *)
DomainAllowed(url) ==
    \/ FollowExternal \/ AllowedHosts = {} \/ ~ HasDomain(url) \/ Domain(url) \in AllowedHosts
    \/ Domain(url) \in DOMAIN SubdomainOf /\ SubdomainOf[Domain(url)] \in AllowedHosts

(* The schemes that are skipped do not occur: a reference has become an    *)
(* absolute URL before should_crawl looks at it.                           *)
ShouldCrawl(url) == Last(url) \notin SkippedSegments /\ DomainAllowed(url)

AdaptivePriority(depth) ==
    CASE depth <= 1 -> "High" [] depth = 2 -> "Medium" [] depth = 3 -> "Low" [] OTHER -> "Background"

(* The references of a page are found tag by tag, and in the order of the  *)
(* page where the tag is the same.                                         *)
Tags == <<"a", "img", "script", "link", "form", "iframe", "frame">>
ExtractAttr(base, depth, element) == [url |-> Resolve(base, element.href), depth |-> depth + 1]
ExtractFromHtml(base, depth, page) ==
    LET found == {i \in DOMAIN page : page[i].tag \in Range(Tags)}
        TagOf(i) == CHOOSE t \in DOMAIN Tags : Tags[t] = page[i].tag
        Before(i) == {j \in found : TagOf(j) < TagOf(i) \/ (TagOf(j) = TagOf(i) /\ j < i)}
        Found(n) == page[CHOOSE i \in found : Cardinality(Before(i)) = n - 1]
    IN  [n \in 1..Cardinality(found) |-> ExtractAttr(base, depth, Found(n))]

(* A result may hold its page under up to three names.                     *)
ExtractLinks(base, depth, page, copies) ==
    LET links == ExtractFromHtml(base, depth, page) IN
    (links \o (IF copies > 1 THEN links ELSE <<>>)) \o (IF copies > 2 THEN links ELSE <<>>)

-----------------------------------------------------------------------------
NoCall == [at |-> "none", links |-> <<>>, count |-> 0]

CrawlerInit ==
    /\ seen = {} /\ submitted = <<>> /\ refused = {} /\ collected = {} /\ resets = 0
    /\ caller = [w \in Workers |-> NoCall]

(* A page has been collected, a seed or a task of the crawler, and a       *)
(* worker calls process_result with it.                                    *)
ProcessResult(w, url, depth, page, copies) ==
    /\ caller[w] = NoCall
    /\ depth < MaxDepth
    /\ LET links == ExtractLinks(url, depth, page, copies)
       IN  links # <<>> /\ caller' = [caller EXCEPT ![w] = [at |-> "filter", links |-> links, count |-> 0]]
    /\ UNCHANGED <<seen, submitted, refused, resets>>

ProcessSeed(w) ==
    \E url \in Seeds, page \in Pages, copies \in 1..2 :
        /\ <<"seed", url>> \notin collected
        /\ ProcessResult(w, url, 0, page, copies) /\ collected' = collected \cup {<<"seed", url>>}
ProcessTask(w) ==
    \E n \in DOMAIN submitted, page \in Pages :
        /\ <<"task", n>> \notin collected
        /\ ProcessResult(w, submitted[n].url, submitted[n].depth, page, 1)
        /\ collected' = collected \cup {<<"task", n>>}

(* The loop goes on with the next link, one more or none submitted.        *)
NextLink(w, more) ==
    [caller EXCEPT ![w] = [at |-> "filter", links |-> Tail(@.links), count |-> @.count + more]]

(* Mutant of FilterLink: the map is read before the mark is made.          *)
FilterLinkUnmarked(w) ==
    /\ caller[w].at = "filter" /\ caller[w].links # <<>> /\ caller[w].count < MaxUrls
    /\ caller' = [caller EXCEPT ![w].at = "submit"]
    /\ UNCHANGED <<seen, submitted, refused, collected, resets>>

(* The next link: the limit, the filter, and the mark under the lock.      *)
FilterLink(w) ==
    /\ caller[w].at = "filter" /\ caller[w].links # <<>> /\ caller[w].count < MaxUrls
    /\ LET link == Head(caller[w].links)
       IN  IF ~ ShouldCrawl(link.url) \/ \E s \in seen : s.url = link.url
           THEN caller' = NextLink(w, 0) /\ seen' = seen
           ELSE caller' = [caller EXCEPT ![w] = [at |-> "submit", links |-> @.links, count |-> @.count]]
                /\ seen' = seen \cup {link}
    /\ UNCHANGED <<submitted, refused, collected, resets>>

(* The fabric takes the task or, when it is full, refuses it.              *)
SubmitLink(w) ==
    /\ caller[w].at = "submit"
    /\ LET link == Head(caller[w].links) IN
       IF Len(submitted) < QueueCapacity
       THEN /\ submitted' = Append(submitted, [url |-> link.url, depth |-> link.depth,
                                               priority |-> AdaptivePriority(link.depth)])
            /\ caller' = NextLink(w, 1)
            /\ refused' = refused
       ELSE refused' = refused \cup {link.url} /\ caller' = NextLink(w, 0) /\ submitted' = submitted
    /\ UNCHANGED <<seen, collected, resets>>

ProcessReturns(w) ==
    /\ caller[w].at = "filter" /\ (caller[w].links = <<>> \/ caller[w].count >= MaxUrls)
    /\ caller' = [caller EXCEPT ![w] = NoCall]
    /\ UNCHANGED <<seen, submitted, refused, collected, resets>>

(* A new session: between calls, as the documentation has it.              *)
ResetSeen ==
    /\ resets = 0 /\ seen # {} /\ \A w \in Workers : caller[w] = NoCall
    /\ resets' = 1 /\ seen' = {} /\ refused' = {}
    /\ UNCHANGED <<submitted, collected, caller>>

CrawlerNext ==
    \/ ResetSeen
    \/ \E w \in Workers : ProcessSeed(w) \/ ProcessTask(w) \/ FilterLink(w) \/ SubmitLink(w)
                          \/ ProcessReturns(w)

CrawlerSpec == CrawlerInit /\ [][CrawlerNext]_crawlerVars

Times(url) == Cardinality({n \in DOMAIN submitted : submitted[n].url = url})
Submitting(url) == \E w \in Workers : caller[w].at = "submit" /\ Head(caller[w].links).url = url

(* Workers that find the same links side by side submit each of them once  *)
(* per session, never past the depth, never to a host out of the allowed   *)
(* domains (the filter passes what has no host: "../../p" on "https://h/"  *)
(* becomes "https:/p", which is submitted), the nearer the seed the more   *)
(* urgent; and what was seen was submitted, will be, or was refused.       *)
CrawlIsBounded ==
    /\ \A n \in DOMAIN submitted :
          /\ submitted[n].depth \in 1..MaxDepth /\ DomainAllowed(submitted[n].url)
          /\ Times(submitted[n].url) <= 1 + resets
          /\ (submitted[n].depth = 1) <=> (submitted[n].priority = "High")
    /\ \A s \in seen : Times(s.url) > 0 \/ Submitting(s.url) \/ s.url \in refused
=============================================================================
