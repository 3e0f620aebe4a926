--------------------------- MODULE RegistryCases ----------------------------
(***************************************************************************)
(* Directories of class files, most with something wrong somewhere.        *)
(***************************************************************************)
EXTENDS ClassRegistry

Always == [when |-> "always", banks |-> {}]
When(when, banks) == [when |-> when, banks |-> banks]

TextField ==
  [name |-> "bank", type |-> "text", aliases |-> <<"Bank">>, aliases_from |-> None, columns |-> None,
   box |-> None, validators |-> {"known_bank"}, required |-> Always]
TableField ==
  [TextField EXCEPT !.name = "rows", !.type = "table", !.validators = {},
                    !.columns = <<<<"column", "date">>, <<"column", "balance">>>>]

(* Fields that differ from these two in one thing, right or wrong. *)
FieldsOfClasses ==
  {TextField, TableField}
  \cup {[TextField EXCEPT !.name = "nr", !.required = r, !.validators = {"account_number"}] :
          r \in {Always, When("bank_in", {"kbank"}), When("bank_in", {"kbank", "scb"}),
                 When("bank_not_in", {"kbank"}), When("bank_not_in", {"scb"}), When("any", {})}}
  \cup {[TextField EXCEPT !.name = "nr", !.aliases_from = a] :
          a \in {<<"header", "account_no">>, <<"header", "page">>, <<"column", "date">>, <<"header", "">>}}
  \cup {[TextField EXCEPT !.name = "nr", !.aliases = <<"A/C", "A/C">>, !.aliases_from = <<"header", "account_no">>]}
  \cup {[TextField EXCEPT !.box = b] : b \in {<<0, 0, 10, 4>>, <<4, 0, 4, 5>>, <<0, 5, 9, 5>>, <<0, 0, 11, 5>>}}
  \cup {[TextField EXCEPT !.validators = v] : v \in {{"date"}, {"amount", "non_empty"}, {"currency"}}}
  \cup {[TextField EXCEPT !.columns = <<<<"column", "date">>>>], [TextField EXCEPT !.type = "money"]}
  \cup {[TableField EXCEPT !.columns = c] :
          c \in {None, <<>>, <<<<"column", "page">>>>, <<<<"header", "period">>>>}}
  \cup {[TableField EXCEPT !.aliases_from = <<"header", "period">>]}

Statements ==
  [stem |-> "bank_statement", shape |-> "mapping", id |-> "bank_statement",
   banks |-> [shape |-> "mapping", names |-> {"kbank", "scb"}, overrides |-> TRUE],
   cross |-> {"running_balance"}, fields |-> <<TextField, TableField>>]

ClassFiles ==
  {[Statements EXCEPT !.fields = <<f>> \o more, !.banks = banks] :
     f \in FieldsOfClasses, more \in {<<>>} \cup {<<g>> : g \in FieldsOfClasses},
     banks \in {Statements.banks, [Statements.banks EXCEPT !.names = {"kbank"}], None}}
  \cup {[Statements EXCEPT !.banks = b] :
          b \in {[Statements.banks EXCEPT !.shape = s] : s \in {"missing", "broken"}}
                \cup {[Statements.banks EXCEPT !.overrides = FALSE]}}
  \cup {[Statements EXCEPT !.shape = "list"], [Statements EXCEPT !.id = "statement"],
        [Statements EXCEPT !.fields = None], [Statements EXCEPT !.cross = {"total"}]}

(* The file alone, or before a class of other documents. *)
Invoices == [Statements EXCEPT !.stem = "invoice", !.id = "invoice", !.banks = None, !.cross = {},
                               !.fields = <<[TextField EXCEPT !.validators = {"non_empty"}]>>]

ClassCases ==
  [kind : {"classes"},
   files : {None, <<>>} \cup {<<file>> : file \in ClassFiles} \cup {<<file, Invoices>> : file \in ClassFiles}]

(* What may stand in a document. *)
Text(text, chars, digits) ==
  [text |-> text, chars |-> chars, digits |-> digits, date |-> FALSE, amount |-> FALSE]
DocValues ==
  {Text("", {}, 0), Text("kbank", {"letter"}, 0), Text("scb", {"letter"}, 0), Text("xxx-1", {"mask", "digit"}, 1),
   [Text("1,000.00", {"digit", "point"}, 6) EXCEPT !.amount = TRUE],
   [Text("01/02/2024", {"digit", "slash"}, 8) EXCEPT !.date = TRUE],
   [Text("0123456789", {"digit"}, 10) EXCEPT !.amount = TRUE]}

(* load_registry, load_class: there is no registry unless every file of    *)
(* the directory is a class.  What a class can ask of a bank, its bank     *)
(* field can say: every bank that a condition names is a value that the    *)
(* class's known_bank validator accepts; a field that is required in a     *)
(* list of banks and one that is required outside of it are never both     *)
(* required nor both left out, and of a document whose bank is not known   *)
(* the second is.  A field's aliases are told apart, and a table's columns *)
(* each have a word that finds them.                                       *)
LoadedClassIsUsable ==
  Is("classes") /\ RegistryError(case.files) = None =>
    LET registry == LoadRegistry(case.files)
    IN /\ \A file \in ToSet(case.files) : ClassError(file) = None /\ file.id \in DOMAIN registry
       /\ \A id \in DOMAIN registry : \A f \in ToSet(registry[id].fields) :
            LET class == registry[id]
                opposite == [f EXCEPT !.required.when =
                               IF f.required.when = "bank_in" THEN "bank_not_in" ELSE "bank_in"]
            IN /\ \A bank \in f.required.banks :
                    Accepts("known_bank", Text(bank, {"letter"}, 0), class.banks)
               /\ f.required.when # "always" =>
                    /\ \A bank \in class.banks \cup {None, "unknown"} :
                         IsRequired(f, bank) # IsRequired(opposite, bank)
                    /\ \A bank \in {None, "unknown"} :
                         f \in RequiredFields(class, bank) <=> f.required.when = "bank_not_in"
               /\ IsInjective(f.aliases)
               /\ f.type = "table" => f.columns # <<>> /\ \A i \in DOMAIN f.columns : f.columns[i] # <<>>
               /\ \A v \in DocValues : ValidateValue(class, f.name, v) =>
                    ("known_bank" \in f.validators => v.text \in class.banks)

=============================================================================
