--------------------------- MODULE ClassRegistry ----------------------------
(***************************************************************************)
(* The document classes of docparse (docparse/registry.py): what a class   *)
(* file must be to be loaded, and what a loaded class says of its fields.  *)
(*                                                                         *)
(* A class file is a record: its name without .yaml (stem), what the YAML  *)
(* is (shape), its id, its bank list (None, or [shape, names, overrides]), *)
(* its cross validators, and its fields, None where they are no list.      *)
(* Boxes are counted in tenths of the page.  A value is what the           *)
(* validators tell apart: [text, chars, digits, date, amount].  An error   *)
(* names the first thing that is wrong.                                    *)
(***************************************************************************)
EXTENDS Absent

-----------------------------------------------------------------------------
(* FieldSpec, RegionHint: the shape of one field of a class file.          *)
BoxIsOk(box) ==
  \/ box = None
  \/ (\A i \in 1..4 : box[i] \in 0..10) /\ box[1] < box[3] /\ box[2] < box[4]

FieldTypes == {"text", "amount", "date", "account", "table"}

ShapeIsOk(f) ==
  /\ f.type \in FieldTypes /\ f.required.when \in {"always", "bank_in", "bank_not_in"}
  /\ BoxIsOk(f.box)
  /\ IF f.type = "table" THEN f.columns \notin {None, <<>>} /\ f.aliases_from = None
     ELSE f.columns = None

-----------------------------------------------------------------------------
(* The validators, and the tables of the statement mapper that aliases and *)
(* columns are taken from.                                                 *)
FieldValidators == {"date", "amount", "account_number", "non_empty", "known_bank"}
CrossValidators == {"running_balance"}

HeaderLabels(field) ==
  CASE field = "account_no" -> <<"Account No.", "A/C">>
    [] field = "period" -> <<"Statement Period">>
    [] OTHER -> <<>>

ColumnKeywords(role) == IF role \in {"date", "balance"} THEN <<role>> ELSE <<>>

Accepts(validator, v, banks) ==
  CASE validator = "date" -> v.date
    [] validator = "amount" -> v.amount
    [] validator = "account_number" -> v.chars # {} /\ v.chars \subseteq {"digit", "mask"} /\ v.digits >= 4
    [] validator = "non_empty" -> v.chars # {}
    [] validator = "known_bank" -> v.text \in banks

-----------------------------------------------------------------------------
(* _resolve_aliases, _resolve_columns: a reference is <<what, name>>.      *)
AliasError(f) ==
  IF f.aliases_from = None THEN None
  ELSE IF f.aliases_from[1] # "header" \/ f.aliases_from[2] = "" THEN "aliases_from"
  ELSE IF HeaderLabels(f.aliases_from[2]) = <<>> THEN "header field"
  ELSE None

Aliases(f) ==
  FoldLeft(LAMBDA seen, a : IF a \in ToSet(seen) THEN seen ELSE Append(seen, a), <<>>,
           f.aliases \o (IF f.aliases_from = None THEN <<>> ELSE HeaderLabels(f.aliases_from[2])))

ColumnError(f) ==
  IF f.columns = None THEN None
  ELSE FirstOf([i \in 1..Len(f.columns) |->
         IF f.columns[i][1] # "column" \/ f.columns[i][2] = "" THEN "column"
         ELSE IF ColumnKeywords(f.columns[i][2]) = <<>> THEN "role"
         ELSE None])

ColumnWords(f) ==
  IF f.columns = None THEN None
  ELSE [i \in 1..Len(f.columns) |-> ColumnKeywords(f.columns[i][2])]

(* _resolve_field: its validators and the banks of its condition are known.*)
(* A condition is [when, banks], and "always" names no bank.               *)
(* Mutant of UnknownBanks: only those the field is required of. *)
UnknownRequired(f, banks) == IF f.required.when = "bank_in" THEN f.required.banks \ banks ELSE {}

UnknownBanks(f, banks) == f.required.banks \ banks

FieldError(f, banks) ==
  FirstOf(<<IF f.validators \subseteq FieldValidators THEN None ELSE "validator",
            IF UnknownBanks(f, banks) = {} THEN None ELSE "bank",
            AliasError(f), ColumnError(f)>>)

ResolveField(f) ==
  [name |-> f.name, type |-> f.type, aliases |-> Aliases(f), box |-> f.box,
   validators |-> f.validators, required |-> f.required, columns |-> ColumnWords(f)]

-----------------------------------------------------------------------------
(* _load_banks: no list is an empty one.                                   *)
BanksError(banks) ==
  IF banks = None THEN None
  ELSE IF banks.shape # "mapping" THEN "banks_from"
  ELSE IF ~banks.overrides THEN "overrides" ELSE None

BankNames(banks) == IF banks = None THEN {} ELSE banks.names

(* load_class: everything but the fields first, then each field alone, and *)
(* then what relates them.                                                 *)
ClassError(file) ==
  IF file.shape # "mapping" THEN "mapping"
  ELSE IF file.fields = None THEN "fields"
  ELSE LET of(Error(_)) == FirstOf([i \in 1..Len(file.fields) |-> Error(file.fields[i])])
           shape(f) == IF ShapeIsOk(f) THEN None ELSE "shape"
           later(f) == FieldError(f, BankNames(file.banks))
           names == {f.name : f \in ToSet(file.fields)}
       IN FirstOf(<<of(shape),
                    IF file.id = file.stem THEN None ELSE "id",
                    IF Cardinality(names) = Len(file.fields) THEN None ELSE "duplicate",
                    IF file.cross \subseteq CrossValidators THEN None ELSE "cross",
                    BanksError(file.banks), of(later)>>)

LoadClass(file) ==
  [id |-> file.id, banks |-> BankNames(file.banks), cross |-> file.cross,
   fields |-> [i \in 1..Len(file.fields) |-> ResolveField(file.fields[i])]]

(* load_registry: the files in the order of their names, all or none.      *)
(* files is None where there is no directory.                              *)
(* Mutant of RegistryError: a file that cannot be loaded is skipped. *)
ErrorOfDirectory(files) == IF files = None THEN "directory" ELSE None

RegistryError(files) ==
  IF files = None THEN "directory"
  ELSE FirstOf([i \in 1..Len(files) |-> ClassError(files[i])])

LoadRegistry(files) ==
  [id \in {file.id : file \in ToSet(files)} |->
    LoadClass(CHOOSE file \in ToSet(files) : file.id = id)]

-----------------------------------------------------------------------------
(* DocumentClass: is_required and required_fields, validate_value.  A bank *)
(* may be None or "unknown".                                               *)
KnownBank(bank) == bank \notin {None, "unknown"}

(* Mutant of IsRequired: a bank that is not known needs no field. *)
RequiredOfKnown(f, bank) ==
  CASE f.required.when = "always" -> TRUE
    [] f.required.when = "bank_in" -> KnownBank(bank) /\ bank \in f.required.banks
    [] f.required.when = "bank_not_in" -> KnownBank(bank) /\ bank \notin f.required.banks

IsRequired(f, bank) ==
  CASE f.required.when = "always" -> TRUE
    [] f.required.when = "bank_in" -> KnownBank(bank) /\ bank \in f.required.banks
    [] f.required.when = "bank_not_in" -> ~KnownBank(bank) \/ bank \notin f.required.banks

RequiredFields(class, bank) == {f \in ToSet(class.fields) : IsRequired(f, bank)}

Field(class, name) == CHOOSE f \in ToSet(class.fields) : f.name = name

ValidateValue(class, name, v) ==
  \A validator \in Field(class, name).validators : Accepts(validator, v, class.banks)

=============================================================================
