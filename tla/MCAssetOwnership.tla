-------------------------- MODULE MCAssetOwnership --------------------------
(* Small instances of AssetOwnership for TLC. *)
EXTENDS AssetOwnership, TLC

CONSTANTS web, ann, bob

SpelledForms == ("SSH" :> "ssh") @@ ("Prod " :> "prod") @@ (" DB" :> "db")
                  @@ ("AUTH_METHOD" :> "auth_method") @@ ("Key" :> "key")

Tagged(environment, groups) == [environment |-> environment, criticality |-> "", groups |-> groups]
NoTags == Tagged("", {})

Ssh == [type |-> "SSH", host |-> "h", port |-> 0,
        metadata |-> ("username" :> "root" @@ "auth_method" :> "Key")]
\* Two spellings of one key: one of the values is no text.
Collision == [type |-> "ssh", host |-> "h", port |-> 2222,
              metadata |-> ("username" :> "root" @@ "auth_method" :> "key" @@ "AUTH_METHOD" :> "none")]
NoPort == [type |-> "database", host |-> "h", port |-> 65536,
           metadata |-> ("username" :> "root" @@ "engine" :> "mysql" @@ "database" :> "crm")]

Request(name, connection, tags) ==
  [name |-> name, owner |-> NoOwner, connection |-> connection, tags |-> tags]

Sound == Request(web, Ssh, Tagged("Prod ", {" DB", "db", ""}))
Racy == Request(web, Collision, NoTags)
Unsound == Request(web, NoPort, NoTags)
Nameless == Request(NoName, Ssh, Sound.tags)

AllRequests == {Sound, Racy, Unsound, Nameless}
AllTaggings == {[owner |-> NoOwner, tags |-> NoTags],
                [owner |-> ann, tags |-> Tagged("Prod ", {" DB"})],
                [owner |-> bob, tags |-> Tagged("qa", {})]}

InJson(rows) == [assets |-> rows, header |-> {}, csv |-> <<>>]
Line(name, port) == [name |-> name, owner |-> NoOwner, tags |-> Sound.tags,
                     type |-> "SSH", host |-> "h", port |-> port, json |-> NoCell,
                     cells |-> ("username" :> "root" @@ "auth_method" :> "Key" @@ "engine" :> NoCell)]
InCsv(lines) == [assets |-> <<>>, header |-> {"name", "type", "host"}, csv |-> lines]

AllPayloads == {InJson(<<Racy, Sound>>), InCsv(<<Line(NoName, 0), Line(web, 0)>>),
                InCsv(<<Line(web, 0), Line(web, NotANumber)>>)}

Symmetric == Permutations(Assets) \cup Permutations(Imports) \cup Permutations(Transfers)
=============================================================================
